---------------------------- MODULE Spec2Model ----------------------------
(***************************************************************************)
(* qsiparc: per-region statistics of a scalar volume over a label atlas.    *)
(*                                                                          *)
(* The module models                                                        *)
(*   - the ROI statistics of metrics/metrics.py and parcellation/volume.py  *)
(*     as operators over exact rationals (a float is a record: a number     *)
(*     n/d in lowest terms, the square root of such a number, or NaN),      *)
(*   - the two metric resolvers (resolve_roi_metric_specs and               *)
(*     _resolve_metric_specs),                                              *)
(*   - one parcellate_volume call as a sequence of steps over its locals.   *)
(***************************************************************************)
EXTENDS Integers, Sequences, FiniteSets, TLC

-----------------------------------------------------------------------------
(* Bounds of the model.                                                     *)

\* voxels of the largest grid
MaxVox == 3
\* largest label value of a label grid
MaxLabel == 2
\* longest metric specification list handed to a resolver
MaxSpecs == 2

\* the longest list of jobs handed to run_parcellation
MaxJobs == 2

\* the most resources registered with one AtlasRegistry
MaxRegistered == 3

-----------------------------------------------------------------------------
(* Floats.  k = "num": the rational n/d, d > 0, in lowest terms.            *)
(*          k = "sqrt": the square root of n/d (np.nanstd's result).        *)
(*          k = "nan": not-a-number (n = 0, d = 1).                         *)

None == "None"

Abs(i) == IF i < 0 THEN -i ELSE i

RECURSIVE GCD(_, _)
GCD(a, b) == IF b = 0 THEN a ELSE GCD(b, a % b)

Rat(n, d) ==
    LET g == GCD(Abs(n), Abs(d))
        s == IF d < 0 THEN -1 ELSE 1
    IN  [k |-> "num", n |-> (s * n) \div g, d |-> (s * d) \div g]

Num(i) == [k |-> "num", n |-> i, d |-> 1]

NaN == [k |-> "nan", n |-> 0, d |-> 1]

Sqrt(r) == [k |-> "sqrt", n |-> r.n, d |-> r.d]

IsNaN(x) == x.k = "nan"

RAdd(x, y) == Rat(x.n * y.d + y.n * x.d, x.d * y.d)

RSub(x, y) == Rat(x.n * y.d - y.n * x.d, x.d * y.d)

RMul(x, y) == Rat(x.n * y.n, x.d * y.d)

RDivInt(x, i) == Rat(x.n, x.d * i)

RAbs(x) == [x EXCEPT !.n = Abs(x.n)]

RLess(x, y) == x.n * y.d < y.n * x.d

RLeq(x, y) == x.n * y.d <= y.n * x.d

(* Sequence helpers standing for numpy's array primitives.                  *)

RECURSIVE SelectIdx(_, _)
SelectIdx(keep, n) ==
    IF n = 0 THEN << >>
    ELSE IF keep[n] THEN Append(SelectIdx(keep, n - 1), n)
         ELSE SelectIdx(keep, n - 1)

\* arr[keep]: the entries of arr at the positions where the boolean array keep
\* is true, in array order
Take(arr, keep) ==
    LET idx == SelectIdx(keep, Len(arr))
    IN  [i \in 1..Len(idx) |-> arr[idx[i]]]

Valid(arr) == Take(arr, [i \in 1..Len(arr) |-> ~IsNaN(arr[i])])

RECURSIVE RSum(_)
RSum(arr) == IF arr = << >> THEN Num(0) ELSE RAdd(Head(arr), RSum(Tail(arr)))

RECURSIVE Insert(_, _)
Insert(sorted, x) ==
    IF sorted = << >> THEN << x >>
    ELSE IF RLeq(x, Head(sorted)) THEN << x >> \o sorted
         ELSE << Head(sorted) >> \o Insert(Tail(sorted), x)

RECURSIVE Sorted(_)
Sorted(arr) == IF arr = << >> THEN << >> ELSE Insert(Sorted(Tail(arr)), Head(arr))

\* np.nanmean: NaN when no valid value is left
np_nanmean(arr) ==
    LET v == Valid(arr)
    IN  IF Len(v) = 0 THEN NaN ELSE RDivInt(RSum(v), Len(v))

\* np.mean: NaN as soon as one entry is NaN
np_mean(arr) ==
    IF Len(arr) = 0 \/ Len(Valid(arr)) < Len(arr) THEN NaN
    ELSE RDivInt(RSum(arr), Len(arr))

\* np.percentile(arr, q) for q = 25 * quarter, linear interpolation between the
\* order statistics at position (n - 1) * q / 100; NaN when arr holds a NaN
np_percentile(arr, quarter) ==
    IF Len(arr) = 0 \/ Len(Valid(arr)) < Len(arr) THEN NaN
    ELSE LET s  == Sorted(arr)
             p  == (Len(arr) - 1) * quarter
             lo == (p \div 4) + 1
             fr == p % 4
             hi == IF lo < Len(s) THEN lo + 1 ELSE lo
         IN  RAdd(s[lo], RMul(Rat(fr, 4), RSub(s[hi], s[lo])))

\* np.median: NaN as soon as one entry is NaN
np_median(arr) == np_percentile(arr, 2)

\* np.nanmedian
np_nanmedian(arr) == np_percentile(Valid(arr), 2)

\* the population variance of the valid values (np.nanstd squared)
Variance(arr) ==
    LET v  == Valid(arr)
        m  == np_nanmean(arr)
        sq == [i \in 1..Len(v) |-> RMul(RSub(v[i], m), RSub(v[i], m))]
    IN  RDivInt(RSum(sq), Len(v))

np_nanstd(arr) == IF Len(Valid(arr)) = 0 THEN NaN ELSE Sqrt(Variance(arr))

\* the outcome of a reduction that raises instead of returning a number
Raises == [k |-> "raise", n |-> 0, d |-> 1]

\* np.nanmin, np.nanmax: a zero-size array has no minimum and raises
\* ValueError; an array of NaN only gives NaN.  np_nanmin_strict is a variant
\* that raises on an array of NaN only as well.
np_nanmin_strict(arr) ==
    IF Len(Valid(arr)) = 0 THEN Raises ELSE Sorted(Valid(arr))[1]

np_nanmin(arr) ==
    IF Len(arr) = 0 THEN Raises
    ELSE IF Len(Valid(arr)) = 0 THEN NaN ELSE Sorted(Valid(arr))[1]

np_nanmax(arr) ==
    IF Len(arr) = 0 THEN Raises
    ELSE IF Len(Valid(arr)) = 0 THEN NaN ELSE Sorted(Valid(arr))[Len(Valid(arr))]

-----------------------------------------------------------------------------
(* The ROI statistics of metrics/metrics.py.                                *)

\* the z-score threshold of _zfiltered_mean
ZThreshold == 3

nanmean(arr) == IF Len(arr) > 0 THEN np_nanmean(arr) ELSE NaN

nanmedian(arr) == IF Len(arr) > 0 THEN np_nanmedian(arr) ELSE NaN

nanstd(arr) == IF Len(arr) > 0 THEN np_nanstd(arr) ELSE NaN

\* a variant of _nanmin without the guard on arr.size
nanmin_unguarded(arr) == np_nanmin(arr)

nanmin(arr) == IF Len(arr) > 0 THEN np_nanmin(arr) ELSE NaN

nanmax(arr) == IF Len(arr) > 0 THEN np_nanmax(arr) ELSE NaN

count(arr) == Num(Len(arr))

\* |(x - mean) / std| < threshold, squared on both sides: std is a square root.
\* A comparison with NaN on either side is false.
ZBelow(x, mean, std, threshold) ==
    /\ ~IsNaN(x)
    /\ ~IsNaN(mean)
    /\ ~IsNaN(std)
    /\ LET dev == RSub(x, mean)
       IN  RLess(RMul(dev, dev), RMul(Num(threshold * threshold), Rat(std.n, std.d)))

\* a variant of _zfiltered_mean that keeps a value at the threshold itself
zfiltered_mean_inclusive(arr) ==
    IF Len(arr) = 0 THEN NaN
    ELSE LET mean == np_nanmean(arr)
             std  == np_nanstd(arr)
         IN  IF std = Sqrt(Num(0)) THEN mean
             ELSE LET filtered ==
                          Take(arr, [i \in 1..Len(arr) |->
                                        \/ ZBelow(arr[i], mean, std, ZThreshold)
                                        \/ /\ ~IsNaN(arr[i])
                                           /\ ~IsNaN(std)
                                           /\ RMul(RSub(arr[i], mean), RSub(arr[i], mean))
                                                = RMul(Num(ZThreshold * ZThreshold),
                                                       Rat(std.n, std.d))])
                  IN  IF Len(filtered) > 0 THEN np_nanmean(filtered) ELSE NaN

zfiltered_mean(arr) ==
    IF Len(arr) = 0 THEN NaN
    ELSE LET mean == np_nanmean(arr)
             std  == np_nanstd(arr)
         IN  IF std = Sqrt(Num(0)) THEN mean
             ELSE LET filtered ==
                          Take(arr, [i \in 1..Len(arr) |->
                                        ZBelow(arr[i], mean, std, ZThreshold)])
                  IN  IF Len(filtered) > 0 THEN np_nanmean(filtered) ELSE NaN

iqr_mean(arr) ==
    IF Len(arr) = 0 THEN NaN
    ELSE LET q1 == np_percentile(arr, 1)
             q3 == np_percentile(arr, 3)
             subset ==
                 Take(arr, [i \in 1..Len(arr) |->
                               /\ ~IsNaN(arr[i]) /\ ~IsNaN(q1) /\ ~IsNaN(q3)
                               /\ RLeq(q1, arr[i]) /\ RLeq(arr[i], q3)])
         IN  IF Len(subset) > 0 THEN np_mean(subset) ELSE NaN

\* np.abs(arr - median): NaN wherever arr or the median is NaN
AbsDev(arr, median) ==
    [i \in 1..Len(arr) |->
        IF IsNaN(arr[i]) \/ IsNaN(median) THEN NaN ELSE RAbs(RSub(arr[i], median))]

mad_median(arr) ==
    IF Len(arr) = 0 THEN NaN
    ELSE np_nanmedian(AbsDev(arr, np_nanmedian(arr)))

(* The statistics volume.py defines for itself.                             *)

vol_zfiltered_mean(arr) ==
    IF Len(arr) = 0 THEN NaN
    ELSE LET mean == np_nanmean(arr)
             std  == np_nanstd(arr)
         IN  IF std = Sqrt(Num(0)) THEN mean
             ELSE LET filtered ==
                          Take(arr, [i \in 1..Len(arr) |->
                                        ZBelow(arr[i], mean, std, ZThreshold)])
                  IN  IF Len(filtered) > 0 THEN np_nanmean(filtered) ELSE NaN

vol_iqr_mean(arr) ==
    IF Len(arr) = 0 THEN NaN
    ELSE LET q1 == np_percentile(arr, 1)
             q3 == np_percentile(arr, 3)
             subset ==
                 Take(arr, [i \in 1..Len(arr) |->
                               /\ ~IsNaN(arr[i]) /\ ~IsNaN(q1) /\ ~IsNaN(q3)
                               /\ RLeq(q1, arr[i]) /\ RLeq(arr[i], q3)])
         IN  IF Len(subset) > 0 THEN np_mean(subset) ELSE NaN

vol_mad_median(arr) ==
    IF Len(arr) = 0 THEN NaN
    ELSE np_median(AbsDev(arr, np_median(arr)))

(* A caller's own reducer: range_metric of the test suite, max - min with    *)
(* ndarray.max / ndarray.min, which return NaN when arr holds a NaN.        *)
range_metric(arr) ==
    IF Len(arr) = 0 \/ Len(Valid(arr)) < Len(arr) THEN NaN
    ELSE RSub(np_nanmax(arr), np_nanmin(arr))

(* Function objects are named by strings; Apply calls one.                  *)
(* "partial_range" is a callable object without a __name__ attribute (a     *)
(* functools.partial of range_metric).                                      *)
Apply(func, arr) ==
    CASE func = "metrics._nanmean"        -> nanmean(arr)
      [] func = "metrics._nanmedian"      -> nanmedian(arr)
      [] func = "metrics._nanstd"         -> nanstd(arr)
      [] func = "metrics._nanmin"         -> nanmin(arr)
      [] func = "metrics._nanmax"         -> nanmax(arr)
      [] func = "metrics._count"          -> count(arr)
      [] func = "metrics._zfiltered_mean" -> zfiltered_mean(arr)
      [] func = "metrics._iqr_mean"       -> iqr_mean(arr)
      [] func = "metrics._mad_median"     -> mad_median(arr)
      [] func = "volume.lambda_mean"      -> IF Len(arr) > 0 THEN np_nanmean(arr) ELSE NaN
      [] func = "volume.lambda_median"    -> IF Len(arr) > 0 THEN np_nanmedian(arr) ELSE NaN
      [] func = "volume.lambda_std"       -> IF Len(arr) > 0 THEN np_nanstd(arr) ELSE NaN
      [] func = "volume.lambda_min"       -> IF Len(arr) > 0 THEN np_nanmin(arr) ELSE NaN
      [] func = "volume.lambda_max"       -> IF Len(arr) > 0 THEN np_nanmax(arr) ELSE NaN
      [] func = "volume.lambda_count"     -> Num(Len(arr))
      [] func = "volume._zfiltered_mean"  -> vol_zfiltered_mean(arr)
      [] func = "volume._iqr_mean"        -> vol_iqr_mean(arr)
      [] func = "volume._mad_median"      -> vol_mad_median(arr)
      [] func = "range_metric"            -> range_metric(arr)
      [] func = "partial_range"           -> range_metric(arr)

\* a variant that names every callable by the fallback
FuncNameFallback(func) == "custom_metric"

\* getattr(func, "__name__", "custom_metric")
FuncName(func) == IF func = "partial_range" THEN "custom_metric" ELSE func

-----------------------------------------------------------------------------
(* Metric specifications.  A MetricSpec is a string, a callable, or a        *)
(* (name, callable) tuple: t tells which, s is the string, f the callable.   *)

StrSpec(name) == [t |-> "str", s |-> name, f |-> None]

FuncSpec(func) == [t |-> "func", s |-> None, f |-> func]

PairSpec(name, func) == [t |-> "pair", s |-> name, f |-> func]

\* what a resolver hands back: the two lists, or the exception it raised
Returned(names, funcs) ==
    [raised |-> FALSE, error |-> << >>, names |-> names, funcs |-> funcs]

Raised(message) ==
    [raised |-> TRUE, error |-> message, names |-> << >>, funcs |-> << >>]

\* An optional argument: Python's None, or a value.  None carries a filler of
\* the argument's type.
Nothing == [given |-> FALSE, v |-> << >>]

NoTarget == [given |-> FALSE, v |-> ""]

NoLut == [given |-> FALSE, v |-> << >>]

NoMask ==
    [given |-> FALSE, v |-> [kind |-> "NoneType", img |-> [shape |-> << 0, 0 >>, data |-> << >>],
                             key |-> ""]]

Given(v) == [given |-> TRUE, v |-> v]

\* "not x" for an optional sequence: None and the empty sequence are falsy
Falsy(x) == ~x.given \/ x.v = << >>

(* metrics/metrics.py                                                       *)

\* ROI_METRICS: a dict keeps its keys in insertion order
ROI_METRICS_keys ==
    << "nanmean", "nanmedian", "nanstd", "nanmin", "nanmax", "count",
       "zfmean", "iqrmean", "mad_median" >>

ROI_METRICS ==
    [ nanmean    |-> "metrics._nanmean",
      nanmedian  |-> "metrics._nanmedian",
      nanstd     |-> "metrics._nanstd",
      nanmin     |-> "metrics._nanmin",
      nanmax     |-> "metrics._nanmax",
      count      |-> "metrics._count",
      zfmean     |-> "metrics._zfiltered_mean",
      iqrmean    |-> "metrics._iqr_mean",
      mad_median |-> "metrics._mad_median" ]

ROI_METRIC_ALIASES ==
    [ mean           |-> "nanmean",
      median         |-> "nanmedian",
      std            |-> "nanstd",
      min            |-> "nanmin",
      max            |-> "nanmax",
      count          |-> "count",
      zfiltered_mean |-> "zfmean",
      iqr_mean       |-> "iqrmean" ]

DEFAULT_ROI_METRIC_NAMES == ROI_METRICS_keys

\* ROI_METRICS.get(name): the statistic's compute function, or None
get_roi_metric(name) ==
    IF name \in DOMAIN ROI_METRICS THEN ROI_METRICS[name] ELSE None

\* ROI_METRIC_ALIASES.get(spec, spec)
AliasLookup(spec) ==
    IF spec \in DOMAIN ROI_METRIC_ALIASES THEN ROI_METRIC_ALIASES[spec] ELSE spec

\* a variant of the loop that inserts at the front of both lists
RECURSIVE ResolveRoiLoopFront(_, _, _, _)
ResolveRoiLoopFront(specs, i, names, funcs) ==
    IF i > Len(specs) THEN Returned(names, funcs)
    ELSE LET spec == specs[i]
         IN  IF spec.t = "str"
             THEN LET metric == get_roi_metric(AliasLookup(spec.s))
                  IN  IF metric = None
                      THEN Raised(<< "Unknown metric:", spec.s >>)
                      ELSE ResolveRoiLoopFront(specs, i + 1, << spec.s >> \o names,
                                          << metric >> \o funcs)
             ELSE IF spec.t = "func"
             THEN ResolveRoiLoopFront(specs, i + 1, << FuncName(spec.f) >> \o names,
                                 << spec.f >> \o funcs)
             ELSE ResolveRoiLoopFront(specs, i + 1, << spec.s >> \o names,
                                 << spec.f >> \o funcs)

\* the for loop of resolve_roi_metric_specs from its i-th iteration on
RECURSIVE ResolveRoiLoop(_, _, _, _)
ResolveRoiLoop(specs, i, names, funcs) ==
    IF i > Len(specs) THEN Returned(names, funcs)
    ELSE LET spec == specs[i]
         IN  IF spec.t = "str"
             THEN LET metric == get_roi_metric(AliasLookup(spec.s))
                  IN  IF metric = None
                      THEN Raised(<< "Unknown metric:", spec.s >>)
                      ELSE ResolveRoiLoop(specs, i + 1, Append(names, spec.s),
                                          Append(funcs, metric))
             ELSE IF spec.t = "func"
             THEN ResolveRoiLoop(specs, i + 1, Append(names, FuncName(spec.f)),
                                 Append(funcs, spec.f))
             ELSE ResolveRoiLoop(specs, i + 1, Append(names, spec.s),
                                 Append(funcs, spec.f))

\* specs = metrics or tuple(default or DEFAULT_ROI_METRIC_NAMES), then the loop
resolve_roi_metric_specs(metrics, default) ==
    LET names_default ==
            IF Falsy(default) THEN DEFAULT_ROI_METRIC_NAMES ELSE default.v
        specs ==
            IF Falsy(metrics)
            THEN [i \in 1..Len(names_default) |-> StrSpec(names_default[i])]
            ELSE metrics.v
    IN  ResolveRoiLoop(specs, 1, << >>, << >>)

(* parcellation/volume.py                                                   *)

BUILTIN_METRICS_keys ==
    << "mean", "median", "std", "min", "max", "count",
       "zfiltered_mean", "iqr_mean", "mad_median" >>

BUILTIN_METRICS ==
    [ mean           |-> "volume.lambda_mean",
      median         |-> "volume.lambda_median",
      std            |-> "volume.lambda_std",
      min            |-> "volume.lambda_min",
      max            |-> "volume.lambda_max",
      count          |-> "volume.lambda_count",
      zfiltered_mean |-> "volume._zfiltered_mean",
      iqr_mean       |-> "volume._iqr_mean",
      mad_median     |-> "volume._mad_median" ]

\* the for loop of _resolve_metric_specs from its i-th iteration on
RECURSIVE ResolveVolLoop(_, _, _, _)
ResolveVolLoop(specs, i, names, funcs) ==
    IF i > Len(specs) THEN Returned(names, funcs)
    ELSE LET spec == specs[i]
         IN  IF spec.t = "str"
             THEN IF spec.s \notin DOMAIN BUILTIN_METRICS
                  THEN Raised(<< "Unknown metric:", spec.s >>)
                  ELSE ResolveVolLoop(specs, i + 1, Append(names, spec.s),
                                      Append(funcs, BUILTIN_METRICS[spec.s]))
             ELSE IF spec.t = "func"
             THEN ResolveVolLoop(specs, i + 1, Append(names, FuncName(spec.f)),
                                 Append(funcs, spec.f))
             ELSE ResolveVolLoop(specs, i + 1, Append(names, spec.s),
                                 Append(funcs, spec.f))

\* a variant of _resolve_metric_specs that inserts at the front of its lists
resolve_metric_specs_reversed(metrics) ==
    LET specs == IF Falsy(metrics) THEN << StrSpec("mean") >> ELSE metrics.v
        r     == ResolveVolLoop(specs, 1, << >>, << >>)
        n     == Len(r.names)
    IN  [r EXCEPT !.names = [i \in 1..n |-> r.names[n + 1 - i]],
                  !.funcs = [i \in 1..n |-> r.funcs[n + 1 - i]]]

\* "if not metrics: metrics = ("mean",)"
resolve_metric_specs(metrics) ==
    LET specs == IF Falsy(metrics) THEN << StrSpec("mean") >> ELSE metrics.v
    IN  ResolveVolLoop(specs, 1, << >>, << >>)

\* the default of parcellate_volume's metrics parameter
DefaultMetricsArg ==
    Given([i \in 1..Len(BUILTIN_METRICS_keys) |-> StrSpec(BUILTIN_METRICS_keys[i])])

-----------------------------------------------------------------------------
(* Images.  A grid is its shape <<rows, cols>> and its data in C order.      *)
(* Every image of the model carries the identity affine (np.eye(4), as all   *)
(* images of the test suite do), so a voxel index is its world coordinate.   *)

Image(shape, data) == [shape |-> shape, data |-> data]

Size(shape) == shape[1] * shape[2]

\* the flat position of voxel (r, c), both counted from 1
Flat(shape, r, c) == (r - 1) * shape[2] + c

RowOf(shape, i) == ((i - 1) \div shape[2]) + 1

ColOf(shape, i) == ((i - 1) % shape[2]) + 1

\* nibabel's resample_from_to(img, to, order): img sampled on the grid of to.
\* With equal affines an output voxel is the input voxel of the same index,
\* whatever the interpolation order, and cval (zero) outside img's field of
\* view.
resample_from_to(img, to, order, zero) ==
    Image(to.shape,
          [i \in 1..Size(to.shape) |->
              LET r == RowOf(to.shape, i)
                  c == ColOf(to.shape, i)
              IN  IF r <= img.shape[1] /\ c <= img.shape[2]
                  THEN img.data[Flat(img.shape, r, c)]
                  ELSE zero])

\* the message of _ensure_aligned, which carries both shapes
ShapeMessage(atlas_img, scalar_img) ==
    << "Atlas shape", atlas_img.shape, "does not match scalar shape",
       scalar_img.shape >>

\* a variant of _ensure_aligned that compares the shapes only when no policy is
\* given, and resamples under a policy whatever the shapes
ensure_aligned_unchecked(atlas_img, scalar_img, resample_target) ==
    LET same == [raised |-> FALSE, error |-> << >>, atlas_img |-> atlas_img,
                 scalar_img |-> scalar_img, log |-> << >>, resampled |-> << >>]
        message == ShapeMessage(atlas_img, scalar_img)
    IN  IF ~resample_target.given /\ atlas_img.shape = scalar_img.shape THEN same
        ELSE IF ~resample_target.given
        THEN [same EXCEPT !.raised = TRUE, !.error = message]
        ELSE IF resample_target.v \in {"atlas", "labels"}
        THEN [same EXCEPT
                !.log = << [level |-> "WARNING", message |-> message,
                            what |-> "Resampling scalar map to atlas/labels grid."] >>,
                !.resampled = << [image |-> "scalar", order |-> 1] >>,
                !.scalar_img = resample_from_to(scalar_img, atlas_img, 1, Num(0))]
        ELSE IF resample_target.v \in {"scalar", "data"}
        THEN [same EXCEPT
                !.log = << [level |-> "WARNING", message |-> message,
                            what |-> "Resampling atlas/labels to scalar/data grid."] >>,
                !.resampled = << [image |-> "atlas", order |-> 0] >>,
                !.atlas_img = resample_from_to(atlas_img, scalar_img, 0, 0)]
        ELSE [same EXCEPT !.raised = TRUE,
                          !.error = << "Unknown resample_target:", resample_target.v >>]

\* _ensure_aligned with its choices left open: the tokens that resample the
\* value grid, those that resample the label grid, the two interpolation
\* orders, and whether the warning is logged
ensure_aligned_with(atlas_img, scalar_img, resample_target, to_atlas, to_scalar, scalar_order, atlas_order, warn) ==
    LET same == [raised |-> FALSE, error |-> << >>, atlas_img |-> atlas_img,
                 scalar_img |-> scalar_img, log |-> << >>, resampled |-> << >>]
        message == ShapeMessage(atlas_img, scalar_img)
        record(what) == IF warn
                        THEN << [level |-> "WARNING", message |-> message,
                                 what |-> what] >>
                        ELSE << >>
    IN  IF atlas_img.shape = scalar_img.shape THEN same
        ELSE IF ~resample_target.given
        THEN [same EXCEPT !.raised = TRUE, !.error = message]
        ELSE IF resample_target.v \in to_atlas
        THEN [same EXCEPT
                !.log = record("Resampling scalar map to atlas/labels grid."),
                !.resampled = << [image |-> "scalar", order |-> scalar_order] >>,
                !.scalar_img = resample_from_to(scalar_img, atlas_img, scalar_order,
                                                Num(0))]
        ELSE IF resample_target.v \in to_scalar
        THEN [same EXCEPT
                !.log = record("Resampling atlas/labels to scalar/data grid."),
                !.resampled = << [image |-> "atlas", order |-> atlas_order] >>,
                !.atlas_img = resample_from_to(atlas_img, scalar_img, atlas_order, 0)]
        ELSE [same EXCEPT !.raised = TRUE,
                          !.error = << "Unknown resample_target:", resample_target.v >>]

\* a variant of _ensure_aligned where no policy means the default "labels"
ensure_aligned_lenient(atlas_img, scalar_img, resample_target) ==
    ensure_aligned_with(atlas_img, scalar_img,
                        IF resample_target.given THEN resample_target
                        ELSE [given |-> TRUE, v |-> "labels"],
                        {"atlas", "labels"}, {"scalar", "data"}, 1, 0, TRUE)

\* a variant with the two branches exchanged
ensure_aligned_swapped(atlas_img, scalar_img, resample_target) ==
    ensure_aligned_with(atlas_img, scalar_img, resample_target,
                        {"scalar", "data"}, {"atlas", "labels"}, 1, 0, TRUE)

\* a variant that resamples the label grid linearly
ensure_aligned_linear(atlas_img, scalar_img, resample_target) ==
    ensure_aligned_with(atlas_img, scalar_img, resample_target,
                        {"atlas", "labels"}, {"scalar", "data"}, 1, 1, TRUE)

\* a variant that resamples without a word
ensure_aligned_silent(atlas_img, scalar_img, resample_target) ==
    ensure_aligned_with(atlas_img, scalar_img, resample_target,
                        {"atlas", "labels"}, {"scalar", "data"}, 1, 0, FALSE)

\* what _ensure_aligned does: the two images it returns, the exception it
\* raises, the records it logs and the resampling it asks for
ensure_aligned(atlas_img, scalar_img, resample_target) ==
    LET same == [raised |-> FALSE, error |-> << >>, atlas_img |-> atlas_img,
                 scalar_img |-> scalar_img, log |-> << >>, resampled |-> << >>]
        message == ShapeMessage(atlas_img, scalar_img)
    IN  IF atlas_img.shape = scalar_img.shape THEN same
        ELSE IF ~resample_target.given
        THEN [same EXCEPT !.raised = TRUE, !.error = message]
        ELSE IF resample_target.v \in {"atlas", "labels"}
        THEN [same EXCEPT
                !.log = << [level |-> "WARNING", message |-> message,
                            what |-> "Resampling scalar map to atlas/labels grid."] >>,
                !.resampled = << [image |-> "scalar", order |-> 1] >>,
                !.scalar_img = resample_from_to(scalar_img, atlas_img, 1, Num(0))]
        ELSE IF resample_target.v \in {"scalar", "data"}
        THEN [same EXCEPT
                !.log = << [level |-> "WARNING", message |-> message,
                            what |-> "Resampling atlas/labels to scalar/data grid."] >>,
                !.resampled = << [image |-> "atlas", order |-> 0] >>,
                !.atlas_img = resample_from_to(atlas_img, scalar_img, 0, 0)]
        ELSE [same EXCEPT !.raised = TRUE,
                          !.error = << "Unknown resample_target:", resample_target.v >>]

\* str.lower() on the mask strings of the model
Lower(key) ==
    CASE key = "GM" -> "gm"
      [] key = "Wm" -> "wm"
      [] key = "ACPC" -> "acpc"
      [] key = "MNI152NLin2009cAsym" -> "mni152nlin2009casym"
      [] OTHER -> key

\* nilearn's datasets.load_mni152_gm_mask / _wm_mask / _csf_mask: stock masks
\* on the template's own grid
load_mni152_mask(key) ==
    CASE key = "gm" -> Image(<< 1, 2 >>, << 1, 0 >>)
      [] key = "wm" -> Image(<< 1, 2 >>, << 0, 1 >>)
      [] OTHER -> Image(<< 2, 1 >>, << 1, 1 >>)

NoFile == Image(<< 0, 0 >>, << >>)

\* a variant of _load_mask that hands any other value to nib.load
load_mask_permissive(m) ==
    IF m.kind = "str" /\ Lower(m.key) \in {"gm", "wm", "csf"}
    THEN [raised |-> FALSE, error |-> << >>, img |-> load_mni152_mask(Lower(m.key))]
    ELSE IF m.img = NoFile
    THEN [raised |-> TRUE, error |-> << "No such file or no access:", m.key >>,
          img |-> m.img]
    ELSE [raised |-> FALSE, error |-> << >>, img |-> m.img]

\* _load_mask: an image is returned as it is, a Path is loaded, a string is a
\* preset name (in any case) or else the path of a file, any other type
\* raises.  m.kind is the Python type of the mask argument.
load_mask(m) ==
    IF m.kind \in {"image", "path"}
    THEN [raised |-> FALSE, error |-> << >>, img |-> m.img]
    ELSE IF m.kind = "str"
    THEN IF Lower(m.key) \in {"gm", "wm", "csf"}
         THEN [raised |-> FALSE, error |-> << >>,
               img |-> load_mni152_mask(Lower(m.key))]
         ELSE IF m.img = NoFile
         THEN [raised |-> TRUE, error |-> << "No such file or no access:", m.key >>,
               img |-> m.img]
         ELSE [raised |-> FALSE, error |-> << >>, img |-> m.img]
    ELSE [raised |-> TRUE, error |-> << "Unsupported mask type:", m.kind >>,
          img |-> m.img]

\* variants of where_mask: np.where(mask_data, 0, atlas), and a mask compared
\* with 1 instead of converted to bool
where_mask_inverted(mask_data, atlas_data) ==
    [i \in 1..Len(atlas_data) |-> IF mask_data[i] # 0 THEN 0 ELSE atlas_data[i]]

where_mask_is_one(mask_data, atlas_data) ==
    [i \in 1..Len(atlas_data) |-> IF mask_data[i] = 1 THEN atlas_data[i] ELSE 0]

\* np.asanyarray(mask_img.dataobj, dtype=bool), then np.where(mask_data, atlas, 0)
where_mask(mask_data, atlas_data) ==
    [i \in 1..Len(atlas_data) |-> IF mask_data[i] # 0 THEN atlas_data[i] ELSE 0]

apply_mask(atlas_img, atlas_data, mask_img) ==
    LET fitted == IF mask_img.shape # atlas_img.shape
                  THEN resample_from_to(mask_img, atlas_img, 0, 0)
                  ELSE mask_img
    IN  where_mask(fitted.data, atlas_data)

\* a variant of line 123 that zeroes the labels in place, atlas[~mask_data] = 0
operand_zeroed_in_place(atlas_img, atlas_data, mask_img) ==
    apply_mask(atlas_img, atlas_data, mask_img)

\* line 123, as it bears on the array the name atlas was bound to before:
\* np.where allocates its result and the name is rebound to it, so the array
\* (the caller's own buffer when np.asanyarray had no need to copy) keeps
\* its data
operand_after_where(atlas_img, atlas_data, mask_img) == atlas_data

-----------------------------------------------------------------------------
(* ROI reduction and the table.                                             *)

SetMin(S) == CHOOSE x \in S : \A y \in S : x <= y

RECURSIVE SortedSeq(_)
SortedSeq(S) ==
    IF S = {} THEN << >> ELSE << SetMin(S) >> \o SortedSeq(S \ {SetMin(S)})

\* a variant of np_unique: the distinct entries in order of first appearance
\* (what pandas.unique returns)
RECURSIVE FirstSeen(_, _)
FirstSeen(arr, seen) ==
    IF arr = << >> THEN seen
    ELSE IF Head(arr) \in {seen[i] : i \in 1..Len(seen)}
         THEN FirstSeen(Tail(arr), seen)
         ELSE FirstSeen(Tail(arr), Append(seen, Head(arr)))

unique_first_seen(arr) == FirstSeen(arr, << >>)

\* np.unique(arr): the distinct entries, ascending
np_unique(arr) == SortedSeq({arr[i] : i \in 1..Len(arr)})

\* a variant of Positive: labels[labels != 0]
NonZero(labels) == Take(labels, [i \in 1..Len(labels) |-> labels[i] # 0])

\* labels[labels > 0]
Positive(labels) == Take(labels, [i \in 1..Len(labels) |-> labels[i] > 0])

Digit(d) == << "0", "1", "2", "3", "4", "5", "6", "7", "8", "9" >>[d + 1]

RECURSIVE Digits(_)
Digits(n) == IF n < 10 THEN Digit(n) ELSE Digits(n \div 10) \o Digit(n % 10)

\* str(int(label))
Str(n) == IF n < 0 THEN "-" \o Digits(-n) ELSE Digits(n)

\* label_to_name.get(int(label), str(int(label)))
LutGet(label_to_name, label) ==
    IF label \in DOMAIN label_to_name THEN label_to_name[label] ELSE Str(label)

\* a variant of RoiValues: scalars[atlas >= label]
RoiValuesFrom(atlas_data, scalars_data, label) ==
    Take(scalars_data, [i \in 1..Len(atlas_data) |-> atlas_data[i] >= label])

\* scalars[atlas == label]
RoiValues(atlas_data, scalars_data, label) ==
    Take(scalars_data, [i \in 1..Len(atlas_data) |-> atlas_data[i] = label])

\* lines 127-155 of parcellate_volume: the labels, the values matrix and the
\* DataFrame.  DataFrame.insert raises when the column already exists.
build_table(atlas_data, scalars_data, metric_names_, metric_funcs_, lut) ==
    LET labels    == Positive(np_unique(atlas_data))
        roi_names == [i \in 1..Len(labels) |-> Str(labels[i])]
        lut_names == IF lut.given
                     THEN [i \in 1..Len(labels) |-> LutGet(lut.v, labels[i])]
                     ELSE roi_names
        values    == [i \in 1..Len(labels) |->
                        [j \in 1..Len(metric_funcs_) |->
                            Apply(metric_funcs_[j],
                                  RoiValues(atlas_data, scalars_data, labels[i]))]]
        failed    == {j \in 1..Len(metric_funcs_) :
                         \E i \in 1..Len(labels) : values[i][j] = Raises}
        given     == {metric_names_[j] : j \in 1..Len(metric_names_)}
        clash     == IF "index" \in given THEN "index"
                     ELSE IF "label" \in given THEN "label"
                     ELSE IF lut.given /\ "name" \in given THEN "name"
                     ELSE None
    IN  IF failed # {}
        THEN [raised |-> TRUE,
              error |-> << "reducer raised:", metric_names_[CHOOSE j \in failed : TRUE] >>,
              columns |-> << >>, index |-> << >>, label |-> << >>, name |-> << >>,
              values |-> << >>]
        ELSE IF clash # None
        THEN [raised |-> TRUE, error |-> << "cannot insert, already exists:", clash >>,
              columns |-> << >>, index |-> << >>, label |-> << >>, name |-> << >>,
              values |-> << >>]
        ELSE [raised  |-> FALSE, error |-> << >>,
              columns |-> << "index", "label" >>
                          \o (IF lut.given THEN << "name" >> ELSE << >>)
                          \o metric_names_,
              index   |-> roi_names,
              label   |-> labels,
              name    |-> IF lut.given THEN lut_names ELSE << >>,
              values  |-> values]

NoTable ==
    [raised |-> FALSE, error |-> << >>, columns |-> << >>, index |-> << >>,
     label |-> << >>, name |-> << >>, values |-> << >>]

\* what a call hands back: the table, or the exception it raised
Outcome(raised, err, table) == [raised |-> raised, error |-> err, df |-> table]

\* parcellate_volume as a function of its arguments: reconcile, mask, resolve,
\* reduce, each stage ending the call when it raises
parcellate_volume(a) ==
    LET al == ensure_aligned(a.atlas_path, a.scalar_path, a.resample_target)
        m  == load_mask(a.mask.v)
        masked == IF a.mask.given
                  THEN apply_mask(al.atlas_img, al.atlas_img.data, m.img)
                  ELSE al.atlas_img.data
        r  == resolve_metric_specs(a.metrics)
        t  == build_table(masked, al.scalar_img.data, r.names, r.funcs, a.lut)
    IN  IF al.raised THEN Outcome(TRUE, al.error, NoTable)
        ELSE IF a.mask.given /\ m.raised THEN Outcome(TRUE, m.error, NoTable)
        ELSE IF r.raised THEN Outcome(TRUE, r.error, NoTable)
        ELSE IF t.raised THEN Outcome(TRUE, t.error, NoTable)
        ELSE Outcome(FALSE, << >>, t)

-----------------------------------------------------------------------------
(* The inputs of the model.                                                 *)

Shapes == {sh \in (1..MaxVox) \X (1..MaxVox) : sh[1] * sh[2] <= MaxVox}

LabelVals == {-1} \cup (0..MaxLabel)

\* every label grid of every shape
LabelImages ==
    UNION {{Image(sh, d) : d \in [1..Size(sh) -> LabelVals]} : sh \in Shapes}

\* the label grid whose first half of the voxels is region 1 and whose second
\* half is region 2 ([[1, 1], [2, 2]] of the test suite for shape <<2, 2>>)
Halves(sh) == Image(sh, [i \in 1..Size(sh) |-> IF 2 * i <= Size(sh) THEN 1 ELSE 2])

\* the value grid 1, 3, 5, ... ([[1, 3], [5, 7]] of the test suite)
Ramp(sh) == Image(sh, [i \in 1..Size(sh) |-> Num(2 * i - 1)])

ValueVals == {NaN, Num(1), Num(3)}

ValueImages(sh) == {Image(sh, d) : d \in [1..Size(sh) -> ValueVals]} \cup {Ramp(sh)}

\* mask grids: all ones, all zeros, the first column zeroed ([[0, 1], [0, 1]]
\* of the test suite), and a grid of non-boolean truthy values
MaskImages(sh) ==
    { Image(sh, [i \in 1..Size(sh) |-> 1]),
      Image(sh, [i \in 1..Size(sh) |-> 0]),
      Image(sh, [i \in 1..Size(sh) |-> IF ColOf(sh, i) = 1 THEN 0 ELSE 1]),
      Image(sh, [i \in 1..Size(sh) |-> i]) }

MaskArg(kind, img) == Given([kind |-> kind, img |-> img, key |-> ""])

\* a mask given as a string: a preset name, or the path of a file; img is the
\* image in that file, NoFile when there is none
StrMask(key, img) == Given([kind |-> "str", img |-> img, key |-> key])

LutA == Given([l \in {1} |-> "region_a"])

\* label-to-name mappings: empty, partial, complete, and names that are
\* themselves numerals
Luts ==
    { LutA,
      Given([l \in {} |-> ""]),
      Given([l \in {2} |-> "region_b"]),
      Given([l \in 1..(MaxLabel + 1) |-> IF l = 1 THEN "region_a" ELSE "region_b"]),
      Given([l \in {0, 1} |-> "2"]) }

Mean == Given(<< StrSpec("mean") >>)

MetricsArgs ==
    { Mean,
      Given(<< StrSpec("mean"), StrSpec("max") >>),
      Given(<< StrSpec("max"), StrSpec("mean") >>),
      Given(<< PairSpec("range", "range_metric") >>),
      Given(<< FuncSpec("partial_range"), StrSpec("iqr_mean") >>),
      Given(<< StrSpec("mean"), StrSpec("not_a_metric") >>),
      Given(<< StrSpec("nanmean") >>),
      Given(<< >>),
      DefaultMetricsArg }

Targets ==
    { NoTarget, Given("labels"), Given("atlas"), Given("data"), Given("scalar"),
      Given("nearest") }

\* the metric specifications handed to the resolvers alone
MetricNames ==
    {ROI_METRICS_keys[i] : i \in 1..Len(ROI_METRICS_keys)}
        \cup DOMAIN ROI_METRIC_ALIASES \cup {"not_a_metric"}

SpecUniverse ==
    {StrSpec(n) : n \in MetricNames}
        \cup { FuncSpec("range_metric"), FuncSpec("partial_range"),
               PairSpec("range", "range_metric"), PairSpec("mean", "partial_range") }

SpecLists == UNION {[1..n -> SpecUniverse] : n \in 0..MaxSpecs}

DefaultArgs == {Nothing, Given(<< "count", "max" >>)}

\* the value arrays the resolved reducers are compared on
Arrays == UNION {[1..n -> ValueVals \cup {Num(7)}] : n \in 0..MaxVox}

CallArgs(atlas_path, scalar_path, metrics, lut, resample_target, mask) ==
    [atlas_path |-> atlas_path, scalar_path |-> scalar_path, metrics |-> metrics,
     lut |-> lut, resample_target |-> resample_target, mask |-> mask]

\* every label grid, with and without a LUT
CallsLabels ==
    {CallArgs(a, Ramp(a.shape), Mean, l, Given("labels"), NoMask) :
        a \in LabelImages, l \in {NoLut, LutA}}

\* every label grid without a negative label under every mask grid of its
\* shape
CallsMasks ==
    UNION {{CallArgs(a, Ramp(a.shape), Mean, NoLut, Given("labels"),
                     MaskArg("image", m)) : m \in MaskImages(a.shape)} :
           a \in {x \in LabelImages : \A i \in DOMAIN x.data : x.data[i] >= 0}}

\* every value grid under every metric selection
CallsValues ==
    UNION {{CallArgs(Halves(sh), v, ms, NoLut, Given("labels"), NoMask) :
                v \in ValueImages(sh), ms \in MetricsArgs} : sh \in Shapes}

\* every pair of shapes under every reconciliation policy
CallsShapes ==
    UNION {{CallArgs(Halves(sa), Ramp(sv), Mean, NoLut, t, m) :
                sa \in Shapes, t \in Targets,
                m \in {NoMask, MaskArg("image", Image(sv, [i \in 1..Size(sv) |-> 1]))}} :
           sv \in Shapes}

\* masks of every type and shape
CallsMaskTypes ==
    UNION {{CallArgs(Halves(sa), Ramp(sa), Mean, NoLut, Given("labels"),
                     MaskArg(k, m)) :
                sa \in Shapes, k \in {"image", "path", "int", "list"},
                m \in MaskImages(sm)} :
           sm \in Shapes}

\* every label set under every LUT
CallsLuts ==
    {CallArgs(a, Ramp(a.shape), Mean, l, Given("labels"), NoMask) :
        a \in {x \in LabelImages : x.shape = << 1, MaxVox >>}, l \in Luts}

\* metrics named by the caller like the table's own columns, and twice alike
CallsNames ==
    {CallArgs(Halves(<< 1, 2 >>), Ramp(<< 1, 2 >>), Given(<< PairSpec(n, "range_metric") >>),
              l, Given("labels"), NoMask) :
        n \in {"name", "index", "label", "range"}, l \in {NoLut, LutA}}
    \cup
    {CallArgs(Halves(<< 1, 2 >>), Ramp(<< 1, 2 >>),
              Given(<< StrSpec("mean"), StrSpec("mean") >>), l, Given("labels"), NoMask) :
        l \in {NoLut, LutA}}

\* masks given as strings: the presets, in either case, and paths of files
\* that exist or do not
CallsMaskStrings ==
    {CallArgs(Halves(sa), Ramp(sa), Mean, NoLut, Given("labels"), StrMask(k, NoFile)) :
        sa \in Shapes, k \in {"gm", "GM", "wm", "Wm", "csf", "missing.nii.gz"}}
    \cup
    {CallArgs(Halves(sa), Ramp(sa), Mean, NoLut, Given("labels"),
              StrMask("mask.nii.gz", Image(sa, [i \in 1..Size(sa) |-> 1]))) :
        sa \in Shapes}

(* The grids of the test suite and of the design's scenarios.               *)

TestShape == << 2, 2 >>

\* test_parcellate_volume_applies_mask, test_parcellate_volume_custom_metric
TestAtlasRows == Image(TestShape, << 1, 1, 2, 2 >>)

TestScalarRows == Image(TestShape, << Num(1), Num(3), Num(5), Num(7) >>)

TestMaskColumn == Image(TestShape, << 0, 1, 0, 1 >>)

\* test_volume_parcellator_runs_with_placeholder_strategy
TestAtlasThree == Image(TestShape, << 0, 1, 1, 2 >>)

TestScalarThree == Image(TestShape, << Num(0), Num(1), Num(3), Num(5) >>)

\* test_parcellate_volume
TestAtlasOne == Image(TestShape, << 0, 1, 1, 1 >>)

TestScalarOne == Image(TestShape, << Num(0), Num(2), Num(4), Num(6) >>)

\* test_parcellate_volume_resamples_scalar
TestAtlasOnes == Image(TestShape, << 1, 1, 1, 1 >>)

TestScalarFives == Image(<< 4, 4 >>, [i \in 1..16 |-> Num(5)])

CallsTests ==
    {CallArgs(TestAtlasRows, TestScalarRows, ms, l, Given("labels"), m) :
        ms \in MetricsArgs, l \in {NoLut, LutA},
        m \in {NoMask, MaskArg("path", TestMaskColumn),
               MaskArg("image", Image(TestShape, << 1, 1, 1, 1 >>))}}
    \cup
    { CallArgs(TestAtlasThree, TestScalarThree,
               Given(<< StrSpec("mean"), StrSpec("median"), StrSpec("iqr_mean") >>),
               NoLut, Given("labels"), NoMask),
      CallArgs(TestAtlasOne, TestScalarOne,
               Given(<< StrSpec("mean"), StrSpec("max") >>),
               NoLut, Given("labels"), NoMask),
      CallArgs(TestAtlasRows, TestScalarRows,
               Given(<< FuncSpec("range_metric"), PairSpec("mean", "partial_range") >>),
               NoLut, Given("labels"), NoMask) }
    \cup
    {CallArgs(TestAtlasOnes, TestScalarFives, Mean, NoLut, t, NoMask) : t \in Targets}

\* calls with several faults at once: shapes that differ under no policy or
\* an unknown one, a mask of an unsupported type or in a missing file, and a
\* metric name that is not registered; and the same calls with fewer faults
CallsFaults ==
    {CallArgs(Halves(sa), Ramp(sv), Given(<< StrSpec("mean"), StrSpec("not_a_metric") >>),
              NoLut, t, m) :
        sa \in {<< 1, 2 >>}, sv \in {<< 1, 2 >>, << 2, 1 >>},
        t \in {NoTarget, Given("nearest"), Given("labels")},
        m \in {NoMask, MaskArg("int", Image(<< 1, 2 >>, [i \in 1..2 |-> 1])),
               MaskArg("image", Image(<< 2, 1 >>, [i \in 1..2 |-> 1])),
               StrMask("missing.nii.gz", NoFile)}}

Calls ==
    CallsLabels \cup CallsMasks \cup CallsValues \cup CallsShapes
        \cup CallsMaskTypes \cup CallsMaskStrings \cup CallsLuts \cup CallsNames
        \cup CallsTests \cup CallsFaults

-----------------------------------------------------------------------------
(* parcellation/runner.py: the job runner's handling of the atlas.           *)

\* the spline order behind nilearn's interpolation names
InterpolationOrder(interpolation) ==
    CASE interpolation = "nearest" -> 0
      [] interpolation = "linear" -> 1
      [] OTHER -> 3

\* nilearn's resample_to_img(source, target, interpolation): source on the
\* grid of target, zero outside its field of view
resample_to_img(source_img, target_img, interpolation) ==
    resample_from_to(source_img, target_img, InterpolationOrder(interpolation), 0)

\* a ParcellationJob: the fields the runner hands to parcellate_volume
Job(atlas_img_, scalar_img_, metrics, resample_target, mask) ==
    [atlas |-> atlas_img_, scalar |-> scalar_img_, metrics |-> metrics,
     lut |-> NoLut, resample_target |-> resample_target, mask |-> mask]

\* the key of the resampled-atlas cache: atlas path, scalar path
CacheKey(job_) == << job_.atlas, job_.scalar >>

EmptyCache == << >>

\* a variant of _maybe_resample_atlas that never looks a key up in the cache
maybe_resample_atlas_uncached(job_, cache_) ==
    IF ~(job_.resample_target.given /\ job_.resample_target.v \in {"scalar", "data"})
    THEN [img |-> job_.atlas, cache |-> cache_, resampled |-> << >>]
    ELSE LET res == resample_to_img(job_.atlas, job_.scalar, "nearest")
         IN  [img |-> res,
              cache |-> [k \in DOMAIN cache_ \cup {CacheKey(job_)} |->
                            IF k = CacheKey(job_) THEN res ELSE cache_[k]],
              resampled |-> << [image |-> "atlas",
                                order |-> InterpolationOrder("nearest")] >>]

\* a variant of _maybe_resample_atlas that resamples the atlas linearly
maybe_resample_atlas_linear(job_, cache_) ==
    IF ~(job_.resample_target.given /\ job_.resample_target.v \in {"scalar", "data"})
    THEN [img |-> job_.atlas, cache |-> cache_, resampled |-> << >>]
    ELSE IF CacheKey(job_) \in DOMAIN cache_
    THEN [img |-> cache_[CacheKey(job_)], cache |-> cache_, resampled |-> << >>]
    ELSE LET res == resample_to_img(job_.atlas, job_.scalar, "linear")
         IN  [img |-> res,
              cache |-> [k \in DOMAIN cache_ \cup {CacheKey(job_)} |->
                            IF k = CacheKey(job_) THEN res ELSE cache_[k]],
              resampled |-> << [image |-> "atlas",
                                order |-> InterpolationOrder("linear")] >>]

\* _maybe_resample_atlas: the atlas image handed to parcellate_volume, the
\* cache afterwards, and the resampling done
maybe_resample_atlas(job_, cache_) ==
    IF ~(job_.resample_target.given /\ job_.resample_target.v \in {"scalar", "data"})
    THEN [img |-> job_.atlas, cache |-> cache_, resampled |-> << >>]
    ELSE IF CacheKey(job_) \in DOMAIN cache_
    THEN [img |-> cache_[CacheKey(job_)], cache |-> cache_, resampled |-> << >>]
    ELSE LET res == resample_to_img(job_.atlas, job_.scalar, "nearest")
         IN  [img |-> res,
              cache |-> [k \in DOMAIN cache_ \cup {CacheKey(job_)} |->
                            IF k = CacheKey(job_) THEN res ELSE cache_[k]],
              resampled |-> << [image |-> "atlas",
                                order |-> InterpolationOrder("nearest")] >>]

\* the jobs of the model: one atlas, scalar maps on its grid and on another,
\* with no policy and under the policies that name a grid; the job's default
\* metrics
RunnerShapes == {<< 1, 2 >>, << 2, 1 >>}

Jobs ==
    {Job(Halves(<< 1, 2 >>), Ramp(sv), Mean, t, NoMask) :
        sv \in RunnerShapes,
        t \in {NoTarget, Given("labels"), Given("data"), Given("scalar")}}

\* lines 23-26: the jobs in the order they are run; a dict gives its groups
\* in dict order and each group's jobs in group order
jobs_iterable(jobs) ==
    LET RECURSIVE Flatten(_)
        Flatten(groups) ==
            IF groups = << >> THEN << >>
            ELSE Head(groups).jobs \o Flatten(Tail(groups))
    IN  IF jobs.t = "dict" THEN Flatten(jobs.v) ELSE jobs.v

\* _write_output, lines 73-91: the file of a job, under the subject's dwi
\* directory, named after its atlas and its scalar map (a definition stands
\* for its name as it stands for its path)
OutputPath(job_) == << "sub-01", "dwi", job_.atlas, job_.scalar >>

\* _write_output, lines 93-100: the table is written to the job's file,
\* over whatever the file held
write_output(disk, job_, payload) ==
    [p \in DOMAIN disk \cup {OutputPath(job_)} |->
        IF p = OutputPath(job_) THEN payload ELSE disk[p]]

\* a variant of lines 39-45 that puts the new result at the front of the list
record_result_front(run_, job_, table) ==
    [run_ EXCEPT
        !.disk = IF run_.output_root THEN write_output(@, job_, table) ELSE @,
        !.results = << [job |-> job_, table |-> table,
                        stats |-> [i \in 1..Len(table.index) |->
                                      << table.index[i], table.values[i] >>],
                        output_path |-> IF run_.output_root
                                        THEN << OutputPath(job_) >> ELSE << >>] >>
                    \o @]

\* lines 39-45: the table as a dict of rows, the table written under the
\* output root when there is one, and the result appended to the list
record_result(run_, job_, table) ==
    [run_ EXCEPT
        !.disk = IF run_.output_root THEN write_output(@, job_, table) ELSE @,
        !.results = Append(@, [job |-> job_, table |-> table,
                               stats |-> [i \in 1..Len(table.index) |->
                                             << table.index[i], table.values[i] >>],
                               output_path |-> IF run_.output_root
                                               THEN << OutputPath(job_) >>
                                               ELSE << >>])]

\* what run_parcellation is handed: every list of at most MaxJobs jobs with an
\* output root, the lists of at most one job without, and a dict of two
\* groups
RunInputs ==
    {[jobs |-> [t |-> "list", v |-> l], output_root |-> TRUE] :
        l \in UNION {[1..n -> Jobs] : n \in 0..MaxJobs}}
    \cup
    {[jobs |-> [t |-> "list", v |-> l], output_root |-> FALSE] :
        l \in UNION {[1..n -> Jobs] : n \in 0..1}}
    \cup
    {[jobs |-> [t |-> "dict",
                v |-> << [key |-> "aparc:sub-01",
                          jobs |-> << Job(Halves(<< 1, 2 >>), Ramp(<< 2, 1 >>), Mean,
                                          Given("data"), NoMask),
                                      Job(Halves(<< 1, 2 >>), Ramp(<< 1, 2 >>), Mean,
                                          Given("labels"), NoMask) >>],
                         [key |-> "aparc:sub-02",
                          jobs |-> << Job(Halves(<< 1, 2 >>), Ramp(<< 2, 1 >>), Mean,
                                          last, NoMask) >>] >>],
      output_root |-> TRUE] : last \in {Given("scalar"), NoTarget}}

-----------------------------------------------------------------------------
(* workflows/planner.py: pairing atlases with scalar maps by space.         *)

\* an AtlasDefinition or a ScalarMapDefinition: its name and its space (None
\* when it declares none)
Definition(name, space) == [name |-> name, space |-> space]

\* a ReconInput as io/data_models.py declares it: a context (its label), the
\* atlases and the scalar maps; the dataclass has no other atlas field
ReconInput(label, atlases, scalar_maps) ==
    [context |-> label, atlases |-> atlases, scalar_maps |-> scalar_maps]

\* the truth value of an optional string: None and "" are false
Truthy(str) == str \notin {None, ""}

spaces_compatible(atlas_space, scalar_space, allowed) ==
    LET a == IF Truthy(atlas_space) THEN Lower(atlas_space) ELSE None
        s == IF Truthy(scalar_space) THEN Lower(scalar_space) ELSE None
    IN  IF allowed.given /\ Truthy(a) /\ a \notin allowed.v
                         /\ Truthy(s) /\ s \notin allowed.v
        THEN FALSE
        ELSE IF Truthy(a) /\ Truthy(s) THEN a = s
        ELSE IF allowed.given /\ (Truthy(a) \/ Truthy(s))
        THEN a \in allowed.v \/ s \in allowed.v
        ELSE TRUE

\* line 20: the allowed spaces in lower case, or None when spaces is None or
\* empty
allowed_spaces(spaces) ==
    IF spaces.given /\ Len(spaces.v) > 0
    THEN [given |-> TRUE, v |-> {Lower(spaces.v[i]) : i \in 1..Len(spaces.v)}]
    ELSE [given |-> FALSE, v |-> {}]

\* lines 23-39: the jobs in the order they are appended, each with the key of
\* its group; reading recon.native_atlases raises AttributeError on an object
\* that has no such attribute
RECURSIVE PlanLoop(_, _, _, _)
PlanLoop(recon_inputs, r, allowed, jobs) ==
    IF r > Len(recon_inputs)
    THEN [raised |-> FALSE, error |-> << >>, jobs |-> jobs]
    ELSE LET recon == recon_inputs[r]
         IN  IF "native_atlases" \notin DOMAIN recon
             THEN [raised |-> TRUE,
                   error |-> << "AttributeError:", "native_atlases" >>,
                   jobs |-> << >>]
             ELSE LET atlases == recon.atlases \o recon.native_atlases
                      ns      == Len(recon.scalar_maps)
                      pairs   == [k \in 1..(Len(atlases) * ns) |->
                                    [key     |-> << atlases[((k - 1) \div ns) + 1].name,
                                                   recon.context >>,
                                     atlas   |-> atlases[((k - 1) \div ns) + 1],
                                     scalar  |-> recon.scalar_maps[((k - 1) % ns) + 1],
                                     context |-> recon.context]]
                      keep    == [k \in 1..Len(pairs) |->
                                    spaces_compatible(pairs[k].atlas.space,
                                                      pairs[k].scalar.space, allowed)]
                  IN  PlanLoop(recon_inputs, r + 1, allowed, jobs \o Take(pairs, keep))

plan_parcellations(recon_inputs, spaces) ==
    PlanLoop(recon_inputs, 1, allowed_spaces(spaces), << >>)

\* the spaces of the model: none, empty, and two spaces in two spellings
SpaceNames == {None, "", "ACPC", "acpc", "MNI152NLin2009cAsym"}

\* the recon inputs of the model: at most one subject, with at most one atlas
\* and one scalar map of any space, and two subjects
ReconInputLists ==
    {<< >>}
        \cup {<< ReconInput("sub-01", << Definition("aparc", a) >>,
                            << Definition("fa", s) >>) >> :
                 a \in SpaceNames, s \in SpaceNames}
        \cup {<< ReconInput("sub-01", << >>, << Definition("fa", s) >>) >> :
                 s \in SpaceNames}
        \cup {<< ReconInput("sub-01", << Definition("aparc", "ACPC") >>,
                            << Definition("fa", "acpc"), Definition("md", None) >>),
                 ReconInput("sub-02", << Definition("aparc", "ACPC") >>,
                            << Definition("fa", "ACPC") >>) >>}

\* the spaces argument: None, empty, the default, and one space
SpacesArgs ==
    { Nothing, Given(<< >>), Given(<< "MNI152NLin2009cAsym", "ACPC" >>),
      Given(<< "acpc" >>) }

-----------------------------------------------------------------------------
(* atlas/registry.py and WorkflowRunner.preload_atlases: the registry of    *)
(* atlases. The dict _atlases is the sequence of its values in insertion    *)
(* order, each keyed by its definition's name; a path is the tuple of its   *)
(* parts, and the empty tuple stands for no path.                           *)

\* AtlasResource over an AtlasDefinition that has a name and a path
AtlasResource(name, nifti_path) ==
    [definition |-> [name |-> name, nifti_path |-> nifti_path], transforms |-> << >>]

\* a variant of register that keeps the resource a name already has
register_keep_first(atlases, resource) ==
    IF \E i \in DOMAIN atlases : atlases[i].definition.name = resource.definition.name
    THEN atlases
    ELSE Append(atlases, resource)

\* AtlasRegistry.register: self._atlases[resource.definition.name] = resource
register(atlases, resource) ==
    IF \E i \in DOMAIN atlases : atlases[i].definition.name = resource.definition.name
    THEN [i \in DOMAIN atlases |->
            IF atlases[i].definition.name = resource.definition.name
            THEN resource ELSE atlases[i]]
    ELSE Append(atlases, resource)

\* AtlasRegistry.get: the resource under the name, << >> for None
get(atlases, name) ==
    LET hits == {i \in DOMAIN atlases : atlases[i].definition.name = name}
    IN  IF hits = {} THEN << >> ELSE << atlases[CHOOSE i \in hits : TRUE] >>

\* AtlasRegistry.list: the values of the dict
list(atlases) == atlases

\* preload_atlases, lines 29-31: the resource made for one selection, at the
\* selection's path or, when it has none, under the atlas root
SelectionResource(atlas_root, selection) ==
    AtlasResource(selection.name,
                  IF selection.path # << >> THEN selection.path
                  ELSE << atlas_root, selection.name >>)

\* WorkflowRunner.preload_atlases: every selection's resource is registered,
\* in the order of the selections
RECURSIVE preload_atlases(_, _, _)
preload_atlases(atlases, atlas_root, selections) ==
    IF selections = << >> THEN atlases
    ELSE preload_atlases(register(atlases, SelectionResource(atlas_root, Head(selections))),
                         atlas_root, Tail(selections))

AtlasNames == {"desikan", "aal"}

\* the resources handed to register
Resources ==
    {AtlasResource(n, p) : n \in AtlasNames,
                           p \in {<< "tmp", "a.nii.gz" >>, << "tmp", "b.nii.gz" >>}}

\* the selections handed to preload_atlases: with a path of their own
\* (test_atlas_registry_registers_resources) and without
SelectionLists ==
    LET Selections == {[name |-> n, path |-> p] :
                          n \in AtlasNames, p \in {<< >>, << "tmp", "desikan.nii.gz" >>}}
    IN  UNION {[1..n -> Selections] : n \in 0..2}

-----------------------------------------------------------------------------
(* One parcellate_volume call, step by step.                                *)

VARIABLES
    pc,            \* where the call stands
    args,          \* the caller's arguments
    atlas_img,     \* the label image after _ensure_aligned
    scalar_img,    \* the value image after _ensure_aligned
    atlas,         \* the label array, masked once the mask is applied
    scalars,       \* the value array
    metric_names,
    metric_funcs,
    df,            \* the returned table
    error,         \* the exception the call raised
    log,           \* the records written to the module's logger
    resampled,     \* the resample_from_to calls made: which image, which order
    rcall,         \* a call of the two metric resolvers alone
    job,           \* the runner's current job and what it did to the atlas
    cache,         \* the runner's resampled atlases, by atlas and scalar path
    red,           \* a call of every built-in reducer on one array
    run,           \* a call of run_parcellation: its jobs, its results, the files written
    session,       \* a caller who invokes the engine again and again on grids it keeps
    plan,          \* a call of plan_parcellations
    registry       \* an AtlasRegistry, the resources registered with it so far

vars == << pc, args, atlas_img, scalar_img, atlas, scalars, metric_names,
           metric_funcs, df, error, log, resampled, rcall, job, cache, red,
           run, session, plan, registry >>

runner_vars == << job, cache, run >>

\* what lies outside the engine and the job runner
workflow_vars == << plan, registry >>

side_vars == << session, workflow_vars >>

NoImage == Image(<< 0, 0 >>, << >>)

NoArgs == CallArgs(NoImage, NoImage, Nothing, NoLut, NoTarget, NoMask)

\* the built-in reducers: those of the catalog and those of volume.py
Reducers ==
    {ROI_METRICS[k] : k \in DOMAIN ROI_METRICS}
        \cup {BUILTIN_METRICS[k] : k \in DOMAIN BUILTIN_METRICS}

\* ten values alike and one apart: the one apart lies more than three
\* standard deviations from the mean
OutlierArray == [i \in 1..11 |-> IF i = 6 THEN Num(3) ELSE Num(1)]

\* nine values alike and one apart: the one apart lies three standard
\* deviations from the mean, no more and no less
ThresholdArray == [i \in 1..10 |-> IF i = 4 THEN Num(3) ELSE Num(1)]

ReducerInputs ==
    Arrays \cup {OutlierArray, Append(OutlierArray, NaN), << NaN >> \o OutlierArray,
                 ThresholdArray}

NoRed == [arr |-> << >>, out |-> [f \in Reducers |-> NaN], done |-> FALSE]

NoJob ==
    [given |-> FALSE, v |-> Job(NoImage, NoImage, Nothing, NoTarget, NoMask),
     resampled |-> << >>]

\* no run under way
NoRun ==
    [on |-> FALSE, input |-> [t |-> "list", v |-> << >>], output_root |-> FALSE,
     jobs |-> << >>, k |-> 0, results |-> << >>, disk |-> << >>,
     resamples |-> << >>, raised |-> FALSE]

NoRCall ==
    [metrics |-> Nothing, default |-> Nothing, roi |-> Returned(<< >>, << >>),
     vol |-> Returned(<< >>, << >>), done |-> FALSE]

Idle ==
    /\ pc = "idle"
    /\ args = NoArgs
    /\ atlas_img = NoImage
    /\ scalar_img = NoImage
    /\ atlas = << >>
    /\ scalars = << >>
    /\ metric_names = << >>
    /\ metric_funcs = << >>
    /\ df = NoTable
    /\ error = << >>
    /\ log = << >>
    /\ resampled = << >>

\* the selections of the caller who keeps its grids: plain, masked, with a
\* LUT and two metrics, and with a metric that does not exist
RepeatInputs ==
    << CallArgs(TestAtlasRows, TestScalarRows, Mean, NoLut, Given("labels"), NoMask),
       CallArgs(TestAtlasRows, TestScalarRows, Mean, NoLut, Given("labels"),
                MaskArg("image", TestMaskColumn)),
       CallArgs(TestAtlasRows, TestScalarRows,
                Given(<< StrSpec("mean"), StrSpec("max") >>), LutA, Given("labels"),
                NoMask),
       CallArgs(TestAtlasRows, TestScalarRows,
                Given(<< StrSpec("mean"), StrSpec("not_a_metric") >>), NoLut,
                Given("labels"), NoMask) >>

\* no invocation yet: the label grid as the caller made it, and no outcome
NoSession ==
    [on |-> FALSE, cur |-> 0, label_grid |-> TestAtlasRows,
     seen |-> [k \in 1..Len(RepeatInputs) |->
                  [done |-> FALSE, out |-> Outcome(FALSE, << >>, NoTable)]]]

\* a new AtlasRegistry: no atlas, nothing registered, nothing preloaded
NoRegistry == [atlases |-> << >>, registered |-> << >>, preloaded |-> << >>]

NoPlan ==
    [done |-> FALSE, recon_inputs |-> << >>, spaces |-> Nothing,
     out |-> [raised |-> FALSE, error |-> << >>, jobs |-> << >>]]

\* nothing is under way: no call of the engine, of the resolvers, of the
\* reducers or of the planner, no run of jobs, no caller keeping grids
AtRest ==
    /\ pc = "idle"
    /\ ~session.on
    /\ ~rcall.done
    /\ ~red.done
    /\ ~plan.done
    /\ ~run.on
    /\ registry = NoRegistry
    /\ cache = EmptyCache

Init ==
    /\ Idle /\ rcall = NoRCall /\ job = NoJob /\ cache = EmptyCache /\ red = NoRed
    /\ session = NoSession
    /\ plan = NoPlan
    /\ run = NoRun
    /\ registry = NoRegistry

\* the caller invokes parcellate_volume
Call ==
    /\ pc = "idle"
    /\ ~session.on
    /\ ~plan.done
    /\ ~run.on
    /\ registry = NoRegistry
    /\ ~rcall.done
    /\ ~red.done
    /\ cache = EmptyCache
    /\ \E a \in Calls : args' = a
    /\ pc' = "called"
    /\ UNCHANGED << atlas_img, scalar_img, atlas, scalars, metric_names,
                    metric_funcs, df, error, log, resampled, rcall >>
    /\ UNCHANGED << runner_vars, red, side_vars >>

\* run_parcellation is called, lines 22-28
RunStart ==
    /\ AtRest
    /\ \E i \in RunInputs :
          run' = [NoRun EXCEPT !.on = TRUE, !.input = i.jobs,
                               !.output_root = i.output_root,
                               !.jobs = jobs_iterable(i.jobs)]
    /\ UNCHANGED << pc, args, atlas_img, scalar_img, atlas, scalars, metric_names,
                    metric_funcs, df, error, log, resampled, rcall, job, cache, red >>
    /\ UNCHANGED side_vars

\* run_parcellation, lines 29-38: the next job of the run; the atlas is taken
\* from _maybe_resample_atlas and parcellate_volume is called with it
RunJob ==
    /\ pc = "idle"
    /\ run.on
    /\ ~run.raised
    /\ run.k < Len(run.jobs)
    /\ LET j == run.jobs[run.k + 1]
           r == maybe_resample_atlas(j, cache)
       IN  /\ job' = [given |-> TRUE, v |-> j, resampled |-> r.resampled]
           /\ cache' = r.cache
           /\ args' = CallArgs(r.img, j.scalar, j.metrics, j.lut,
                               j.resample_target, j.mask)
           /\ run' = [run EXCEPT
                        !.k = @ + 1,
                        !.resamples = IF r.resampled # << >>
                                      THEN Append(@, CacheKey(j)) ELSE @]
    /\ pc' = "called"
    /\ UNCHANGED << atlas_img, scalar_img, atlas, scalars, metric_names,
                    metric_funcs, df, error, log, resampled, rcall, red >>
    /\ UNCHANGED side_vars

\* run_parcellation is over: it returns its results (line 46) or the
\* exception of a job has left it; its locals are gone
RunReturn ==
    /\ pc = "idle"
    /\ run.on
    /\ run.raised \/ run.k = Len(run.jobs)
    /\ run' = NoRun
    /\ cache' = EmptyCache
    /\ UNCHANGED << pc, args, atlas_img, scalar_img, atlas, scalars, metric_names,
                    metric_funcs, df, error, log, resampled, rcall, job, red >>
    /\ UNCHANGED side_vars

\* lines 113-117: load the images, _ensure_aligned, take the arrays
EnsureAligned ==
    /\ pc = "called"
    /\ LET r == ensure_aligned(args.atlas_path, args.scalar_path, args.resample_target)
       IN  /\ log' = log \o r.log
           /\ resampled' = resampled \o r.resampled
           /\ IF r.raised
              THEN /\ pc' = "raised"
                   /\ error' = r.error
                   /\ UNCHANGED << atlas_img, scalar_img, atlas, scalars >>
              ELSE /\ pc' = "aligned"
                   /\ atlas_img' = r.atlas_img
                   /\ scalar_img' = r.scalar_img
                   /\ atlas' = r.atlas_img.data
                   /\ scalars' = r.scalar_img.data
                   /\ UNCHANGED error
    /\ UNCHANGED << args, metric_names, metric_funcs, df, rcall >>
    /\ UNCHANGED << runner_vars, red, side_vars >>

\* line 116: the name atlas is bound to the caller's own label buffer when the
\* label image was not resampled (np.asanyarray copies only to convert)
OwnBuffer == \A k \in 1..Len(resampled) : resampled[k].image # "atlas"

\* lines 118-123: load the mask, fit it to the atlas, zero the labels outside
ApplyMask ==
    /\ pc = "aligned"
    /\ IF ~args.mask.given
       THEN /\ pc' = "masked"
            /\ UNCHANGED << args, atlas, error, resampled >>
       ELSE LET m == load_mask(args.mask.v)
            IN  IF m.raised
                THEN /\ pc' = "raised"
                     /\ error' = m.error
                     /\ UNCHANGED << args, atlas, resampled >>
                ELSE /\ pc' = "masked"
                     /\ atlas' = apply_mask(atlas_img, atlas, m.img)
                     /\ args' = IF OwnBuffer
                                THEN [args EXCEPT !.atlas_path.data =
                                         operand_after_where(atlas_img, atlas, m.img)]
                                ELSE args
                     /\ resampled' =
                            IF m.img.shape # atlas_img.shape
                            THEN Append(resampled, [image |-> "mask", order |-> 0])
                            ELSE resampled
                     /\ UNCHANGED error
    /\ UNCHANGED << atlas_img, scalar_img, scalars, metric_names,
                    metric_funcs, df, log, rcall >>
    /\ UNCHANGED << runner_vars, red, side_vars >>

\* line 125: _resolve_metric_specs
ResolveMetrics ==
    /\ pc = "masked"
    /\ LET r == resolve_metric_specs(args.metrics)
       IN  IF r.raised
           THEN /\ pc' = "raised"
                /\ error' = r.error
                /\ UNCHANGED << metric_names, metric_funcs >>
           ELSE /\ pc' = "resolved"
                /\ metric_names' = r.names
                /\ metric_funcs' = r.funcs
                /\ UNCHANGED error
    /\ UNCHANGED << args, atlas_img, scalar_img, atlas, scalars, df, log,
                    resampled, rcall >>
    /\ UNCHANGED << runner_vars, red, side_vars >>

\* lines 127-155: reduce every region and return the DataFrame
Reduce ==
    /\ pc = "resolved"
    /\ LET t == build_table(atlas, scalars, metric_names, metric_funcs, args.lut)
       IN  IF t.raised
           THEN /\ pc' = "raised"
                /\ error' = t.error
                /\ UNCHANGED df
           ELSE /\ pc' = "returned"
                /\ df' = t
                /\ UNCHANGED error
    /\ UNCHANGED << args, atlas_img, scalar_img, atlas, scalars, metric_names,
                    metric_funcs, log, resampled, rcall >>
    /\ UNCHANGED << runner_vars, red, side_vars >>

\* the call is over; its locals are gone and the engine keeps nothing
Finish ==
    /\ pc \in {"returned", "raised"}
    /\ pc' = "idle"
    /\ args' = NoArgs
    /\ atlas_img' = NoImage
    /\ scalar_img' = NoImage
    /\ atlas' = << >>
    /\ scalars' = << >>
    /\ metric_names' = << >>
    /\ metric_funcs' = << >>
    /\ df' = NoTable
    /\ error' = << >>
    /\ log' = << >>
    /\ resampled' = << >>
    /\ job' = NoJob
    /\ cache' = IF job.given /\ pc = "raised" THEN EmptyCache ELSE cache
    /\ run' = IF ~job.given THEN run
              ELSE IF pc = "raised"
              THEN [run EXCEPT !.raised = TRUE, !.results = << >>]
              ELSE record_result(run, job.v, df)
    /\ session' =
          IF session.cur = 0 THEN session
          ELSE [session EXCEPT
                  !.cur = 0,
                  !.label_grid = args.atlas_path,
                  !.seen[session.cur] =
                      IF @.done THEN @
                      ELSE [done |-> TRUE, out |-> Outcome(pc = "raised", error, df)]]
    /\ UNCHANGED << rcall, red, workflow_vars >>

\* the caller invokes parcellate_volume on the label grid it keeps, with one of
\* its selections of mask, metrics and LUT, any number of times in any order
RepeatCall ==
    /\ pc = "idle"
    /\ ~plan.done
    /\ ~run.on
    /\ registry = NoRegistry
    /\ ~rcall.done
    /\ ~red.done
    /\ cache = EmptyCache
    /\ \E k \in 1..Len(RepeatInputs) :
          /\ session' = [session EXCEPT !.on = TRUE, !.cur = k]
          /\ args' = [RepeatInputs[k] EXCEPT !.atlas_path = session.label_grid]
    /\ pc' = "called"
    /\ UNCHANGED << atlas_img, scalar_img, atlas, scalars, metric_names,
                    metric_funcs, df, error, log, resampled, rcall >>
    /\ UNCHANGED << runner_vars, red, workflow_vars >>

\* the caller resolves a metric selection, with the registry's resolver
\* (resolve_roi_metric_specs) and with the engine's (_resolve_metric_specs)
ResolveCall ==
    /\ pc = "idle"
    /\ ~session.on
    /\ ~plan.done
    /\ ~run.on
    /\ registry = NoRegistry
    /\ ~rcall.done
    /\ ~red.done
    /\ cache = EmptyCache
    /\ \E ms \in {Nothing} \cup {Given(l) : l \in SpecLists}, d \in DefaultArgs :
          rcall' = [metrics |-> ms, default |-> d,
                    roi |-> resolve_roi_metric_specs(ms, d),
                    vol |-> resolve_metric_specs(ms), done |-> TRUE]
    /\ UNCHANGED << pc, args, atlas_img, scalar_img, atlas, scalars, metric_names,
                    metric_funcs, df, error, log, resampled >>
    /\ UNCHANGED << runner_vars, red, side_vars >>

ResolveReturn ==
    /\ rcall.done
    /\ rcall' = NoRCall
    /\ UNCHANGED << pc, args, atlas_img, scalar_img, atlas, scalars, metric_names,
                    metric_funcs, df, error, log, resampled >>
    /\ UNCHANGED << runner_vars, red, side_vars >>

\* a caller applies every built-in reducer to one array of values
ReducerCall ==
    /\ pc = "idle"
    /\ ~session.on
    /\ ~plan.done
    /\ ~run.on
    /\ registry = NoRegistry
    /\ ~rcall.done
    /\ ~red.done
    /\ cache = EmptyCache
    /\ \E arr \in ReducerInputs :
          red' = [arr |-> arr, out |-> [f \in Reducers |-> Apply(f, arr)],
                  done |-> TRUE]
    /\ UNCHANGED << pc, args, atlas_img, scalar_img, atlas, scalars, metric_names,
                    metric_funcs, df, error, log, resampled, rcall, job, cache, run >>
    /\ UNCHANGED side_vars

ReducerReturn ==
    /\ red.done
    /\ red' = NoRed
    /\ UNCHANGED << pc, args, atlas_img, scalar_img, atlas, scalars, metric_names,
                    metric_funcs, df, error, log, resampled, rcall, job, cache, run >>
    /\ UNCHANGED side_vars

\* a caller plans the jobs of its recon inputs
PlanCall ==
    /\ AtRest
    /\ \E ri \in ReconInputLists, sp \in SpacesArgs :
          plan' = [done |-> TRUE, recon_inputs |-> ri, spaces |-> sp,
                   out |-> plan_parcellations(ri, sp)]
    /\ UNCHANGED << pc, args, atlas_img, scalar_img, atlas, scalars, metric_names,
                    metric_funcs, df, error, log, resampled, rcall, red, session, registry >>
    /\ UNCHANGED runner_vars

PlanReturn ==
    /\ plan.done
    /\ plan' = NoPlan
    /\ UNCHANGED << pc, args, atlas_img, scalar_img, atlas, scalars, metric_names,
                    metric_funcs, df, error, log, resampled, rcall, red, session, registry >>
    /\ UNCHANGED runner_vars

\* registry.register(resource) is called
RegisterCall ==
    /\ AtRest \/ registry # NoRegistry
    /\ Len(registry.registered) < MaxRegistered
    /\ \E resource \in Resources :
          registry' = [registry EXCEPT
                         !.atlases = register(@, resource),
                         !.registered = Append(@, resource)]
    /\ UNCHANGED << pc, args, atlas_img, scalar_img, atlas, scalars, metric_names,
                    metric_funcs, df, error, log, resampled, rcall, red, session, plan >>
    /\ UNCHANGED runner_vars

\* runner.preload_atlases(atlas_root, selections) is called
PreloadCall ==
    /\ AtRest \/ registry # NoRegistry
    /\ \E selections \in SelectionLists :
          /\ Len(registry.registered) + Len(selections) <= MaxRegistered
          /\ registry' =
                [atlases |-> preload_atlases(registry.atlases, "atlas_root", selections),
                 registered |-> registry.registered \o
                                [i \in 1..Len(selections) |->
                                    SelectionResource("atlas_root", selections[i])],
                 preloaded |-> [i \in 1..Len(selections) |-> selections[i].name]]
    /\ UNCHANGED << pc, args, atlas_img, scalar_img, atlas, scalars, metric_names,
                    metric_funcs, df, error, log, resampled, rcall, red, session, plan >>
    /\ UNCHANGED runner_vars

\* AtlasRegistry(): the registry is dropped for a new one
NewRegistry ==
    /\ registry # NoRegistry
    /\ registry' = NoRegistry
    /\ UNCHANGED << pc, args, atlas_img, scalar_img, atlas, scalars, metric_names,
                    metric_funcs, df, error, log, resampled, rcall, red, session, plan >>
    /\ UNCHANGED runner_vars

Next ==
    \/ Call \/ EnsureAligned \/ ApplyMask \/ ResolveMetrics \/ Reduce \/ Finish
    \/ ResolveCall \/ ResolveReturn
    \/ RunStart \/ RunJob \/ RunReturn
    \/ ReducerCall \/ ReducerReturn
    \/ RepeatCall
    \/ PlanCall \/ PlanReturn
    \/ RegisterCall \/ PreloadCall \/ NewRegistry

Spec == Init /\ [][Next]_vars

-----------------------------------------------------------------------------
(* Properties of the ROI reduction.                                         *)

Reverse(seq) == [i \in 1..Len(seq) |-> seq[Len(seq) + 1 - i]]

Range(seq) == {seq[i] : i \in 1..Len(seq)}

SameShape == args.atlas_path.shape = args.scalar_path.shape

\* the grid the mask argument stands for: the stock mask of a preset name,
\* else the image given or the image in the file named
MaskGrid ==
    IF args.mask.v.kind = "str" /\ Lower(args.mask.v.key) \in {"gm", "wm", "csf"}
    THEN load_mni152_mask(Lower(args.mask.v.key))
    ELSE args.mask.v.img

\* the mask argument, voxel by voxel of the label grid: true where the mask
\* grid covers the voxel with a nonzero value (no mask: true everywhere)
InMask(i) ==
    \/ ~args.mask.given
    \/ LET m == MaskGrid
           r == RowOf(atlas_img.shape, i)
           c == ColOf(atlas_img.shape, i)
       IN  /\ r <= m.shape[1]
           /\ c <= m.shape[2]
           /\ m.data[Flat(m.shape, r, c)] # 0

\* the values of region label, gathered from the caller's grids in descending
\* voxel order: the same multiset as the code's gather, in another order
RegionValues(label) ==
    Reverse(Take(args.scalar_path.data,
                 [i \in 1..Len(args.atlas_path.data) |->
                     args.atlas_path.data[i] = label /\ InMask(i)]))

\* the positive labels left in the caller's label grid under the mask
RegionLabels ==
    {args.atlas_path.data[i] : i \in {k \in 1..Len(args.atlas_path.data) :
                                        args.atlas_path.data[k] > 0 /\ InMask(k)}}

\* the row of the table that carries label
RowOfLabel(label) == CHOOSE i \in 1..Len(df.label) : df.label[i] = label

\* every entry of the table is its column's reducer applied to its row's region
TableReduces ==
    /\ Range(df.label) = RegionLabels
    /\ \A i \in 1..Len(df.label) : \A j \in 1..Len(metric_funcs) :
          df.values[i][j] = Apply(metric_funcs[j], RegionValues(df.label[i]))

\* the call of the design's first scenario: labels [[1,1],[2,2]],
\* values [[1,3],[5,7]], metric mean, no mask
Scenario1 ==
    /\ pc = "returned"
    /\ args.atlas_path = TestAtlasRows
    /\ args.scalar_path = TestScalarRows
    /\ args.metrics = Mean
    /\ ~args.mask.given

\* C1 (as amended): for label and value grids of equal shape, the table holds
\* in the row of each positive label L and the column of each resolved reducer
\* f exactly f applied to the values at the voxels where the masked label grid
\* equals L, each reducer independently of the others; in the first scenario
\* the mean is 2.0 for region "1" and 6.0 for region "2".
C1_TableReduces ==
    (pc = "returned" /\ SameShape) =>
        /\ TableReduces
        /\ Scenario1 => df.values = << << Num(2) >>, << Num(6) >> >>

\* C1 as stated: the same, with mean 4.0 for region "1" in the first scenario
C1_AsStated ==
    (pc = "returned" /\ SameShape) =>
        /\ TableReduces
        /\ Scenario1 => df.values = << << Num(4) >>, << Num(6) >> >>

C1_Witness ==
    /\ Scenario1
    /\ df.index = << "1", "2" >>
    /\ df.values = << << Num(2) >>, << Num(6) >> >>

\* C2: the rows of the returned table are in strictly ascending order of the
\* integer label, exactly one row per distinct positive label of the masked
\* label grid, with or without a LUT or a mask.
C2_RowsAscending ==
    pc = "returned" =>
        /\ \A i \in 1..Len(df.label) : \A j \in 1..Len(df.label) :
              i < j => df.label[i] < df.label[j]
        /\ Range(df.label) = {l \in Range(atlas) : l > 0}
        /\ Len(df.index) = Len(df.label)
        /\ Len(df.values) = Len(df.label)
        /\ args.lut.given => Len(df.name) = Len(df.label)

\* a table of two rows whose grid meets label 2 before label 1, under a mask
C2_Witness ==
    /\ pc = "returned"
    /\ args.mask.given
    /\ df.label = << 1, 2 >>
    /\ \E i \in 1..Len(atlas) : \E j \in 1..Len(atlas) :
          i < j /\ atlas[i] = 2 /\ atlas[j] = 1

C2_WitnessLut == pc = "returned" /\ args.lut.given /\ df.label = << 1, 2 >>

\* C3: label 0 and every non-positive label never appear as a row of the
\* returned table, whatever the label grid holds and whatever the mask zeroes.
C3_NoBackgroundRow ==
    pc = "returned" =>
        \A i \in 1..Len(df.label) :
            /\ df.label[i] > 0
            /\ df.index[i] \notin {"0", "-1"}

\* a returned table of a grid that holds 0, a negative label and a region
C3_Witness ==
    /\ pc = "returned"
    /\ {-1, 0} \subseteq Range(args.atlas_path.data)
    /\ Len(df.label) > 0

\* a returned table of a grid whose region 1 the mask zeroed entirely
C3_WitnessMasked ==
    /\ pc = "returned"
    /\ args.mask.given
    /\ 1 \in Range(args.atlas_path.data)
    /\ 1 \notin Range(df.label)
    /\ 2 \in Range(df.label)

\* C4: with a mask, the label grid used for reduction equals the label grid at
\* every voxel where the mask is true and 0 where it is false, so each region's
\* statistics come from its in-mask voxels only; labels [[1,1],[2,2]], values
\* [[1,3],[5,7]], mask [[0,1],[0,1]] give mean 3.0 and 7.0.
Scenario2 ==
    /\ pc = "returned"
    /\ args.atlas_path = TestAtlasRows
    /\ args.scalar_path = TestScalarRows
    /\ args.metrics = Mean
    /\ args.mask.given
    /\ args.mask.v.img = TestMaskColumn

C4_MaskZeroesOutside ==
    /\ (pc \in {"masked", "resolved", "returned"} /\ args.mask.given) =>
          \A i \in 1..Len(atlas) :
              atlas[i] = IF InMask(i) THEN atlas_img.data[i] ELSE 0
    /\ (pc = "returned" /\ args.mask.given /\ SameShape) => TableReduces
    /\ Scenario2 => df.values = << << Num(3) >>, << Num(7) >> >>

C4_Witness ==
    /\ Scenario2
    /\ atlas = << 0, 1, 0, 2 >>
    /\ df.values = << << Num(3) >>, << Num(7) >> >>

\* C5: a call with a mask that is true at every voxel returns the same table
\* (rows, order, columns, values) as the call with no mask.
AllTrueMask ==
    /\ args.mask.given
    /\ args.mask.v.kind \in {"image", "path"}
    /\ args.mask.v.img.shape = args.atlas_path.shape
    /\ \A i \in 1..Len(args.mask.v.img.data) : args.mask.v.img.data[i] # 0

Unmasked == parcellate_volume([args EXCEPT !.mask = NoMask])

C5_AllTrueMaskIsNoMask ==
    /\ (pc = "returned" /\ AllTrueMask) => ~Unmasked.raised /\ df = Unmasked.df
    /\ (pc = "raised" /\ AllTrueMask) => Unmasked.raised /\ error = Unmasked.error

\* a returned table under an all-true mask of values other than 1
C5_Witness ==
    /\ pc = "returned"
    /\ AllTrueMask
    /\ \E i \in 1..Len(args.mask.v.img.data) : args.mask.v.img.data[i] > 1
    /\ Len(df.label) = 2

-----------------------------------------------------------------------------
(* Properties of metric resolution.                                         *)

\* two reducers that return the same output on every value array
SameOutput(f, g) == \A arr \in Arrays : Apply(f, arr) = Apply(g, arr)

\* the running resolver call asks for the one string spec name
AsksFor(name) == rcall.done /\ rcall.metrics = Given(<< StrSpec(name) >>)

\* the registry's resolver resolves alias and canonical name to reducers of
\* the same output
RegistryAliasEquivalent(alias) ==
    LET canon == resolve_roi_metric_specs(
                     Given(<< StrSpec(ROI_METRIC_ALIASES[alias]) >>), rcall.default)
    IN  /\ ~rcall.roi.raised
        /\ ~canon.raised
        /\ SameOutput(rcall.roi.funcs[1], canon.funcs[1])

\* and so does the resolver parcellate_volume uses
VolumeAliasEquivalent(alias) ==
    LET canon == resolve_metric_specs(Given(<< StrSpec(ROI_METRIC_ALIASES[alias]) >>))
    IN  /\ ~rcall.vol.raised
        /\ ~canon.raised
        /\ SameOutput(rcall.vol.funcs[1], canon.funcs[1])

\* C6: resolving an alias and resolving its canonical name both succeed and
\* yield reducers of identical output on every value set, in
\* resolve_roi_metric_specs and in _resolve_metric_specs.
C6_AliasEquivalence ==
    \A alias \in DOMAIN ROI_METRIC_ALIASES :
        AsksFor(alias) =>
            RegistryAliasEquivalent(alias) /\ VolumeAliasEquivalent(alias)

\* the part of C6 that the code meets: the registry's resolver alone
C6_RegistryOnly ==
    \A alias \in DOMAIN ROI_METRIC_ALIASES :
        AsksFor(alias) => RegistryAliasEquivalent(alias)

\* a string spec that, after alias resolution, has no catalog entry
Unknown(spec) == spec.t = "str" /\ get_roi_metric(AliasLookup(spec.s)) = None

UnknownNames(specs) == {specs[i].s : i \in {k \in 1..Len(specs) : Unknown(specs[k])}}

\* the unknown-metric failure: the error names an offending spec and nothing
\* else is handed back
FailsUnknown(res, specs) ==
    /\ res.raised
    /\ res.error[1] = "Unknown metric:"
    /\ res.error[2] \in UnknownNames(specs)
    /\ res.names = << >>
    /\ res.funcs = << >>

\* C7: metric resolution fails with an unknown-metric error naming the
\* offending spec whenever a string spec, after alias resolution, has no
\* catalog entry, whatever its position and the other specs; no names, no
\* reducers and no table are returned.
C7_UnknownMetricFails ==
    /\ (rcall.done /\ rcall.metrics.given /\ UnknownNames(rcall.metrics.v) # {}) =>
          /\ FailsUnknown(rcall.roi, rcall.metrics.v)
          /\ FailsUnknown(rcall.vol, rcall.metrics.v)
    /\ (pc \in {"resolved", "returned"} /\ args.metrics.given) =>
          UnknownNames(args.metrics.v) = {}

\* the part of C7 that the code meets: the registry's resolver, and the
\* absence of a table
C7_RegistryOnly ==
    /\ (rcall.done /\ rcall.metrics.given /\ UnknownNames(rcall.metrics.v) # {}) =>
          FailsUnknown(rcall.roi, rcall.metrics.v)
    /\ (pc \in {"resolved", "returned"} /\ args.metrics.given) =>
          UnknownNames(args.metrics.v) = {}
    /\ (pc = "raised" /\ error # << >> /\ error[1] = "Unknown metric:") =>
          df = NoTable /\ metric_names = << >>

\* the name a spec asks for: the string itself, the callable's __name__ or
\* "custom_metric", the name of the pair
AskedName(spec) ==
    IF spec.t = "func"
    THEN (IF spec.f = "partial_range" THEN "custom_metric" ELSE spec.f)
    ELSE spec.s

\* names and reducers match the specs one to one and in order, the i-th pair
\* being what the i-th spec alone resolves to
InOrder(res, specs, alone) ==
    /\ Len(res.names) = Len(specs)
    /\ Len(res.funcs) = Len(specs)
    /\ \A i \in 1..Len(specs) :
          /\ ~alone[i].raised
          /\ res.names[i] = AskedName(specs[i])
          /\ res.names[i] = alone[i].names[1]
          /\ res.funcs[i] = alone[i].funcs[1]
          /\ specs[i].t # "str" => res.funcs[i] = specs[i].f

\* C8: for every non-empty spec list that resolves, the name list and the
\* reducer list have the length of the spec list, the i-th name and reducer
\* derived from the i-th spec alone, in the caller's order.
C8_ResolvedInOrder ==
    (rcall.done /\ rcall.metrics.given /\ rcall.metrics.v # << >>) =>
        LET specs == rcall.metrics.v
        IN  /\ ~rcall.roi.raised =>
                  InOrder(rcall.roi, specs,
                          [i \in 1..Len(specs) |->
                              resolve_roi_metric_specs(Given(<< specs[i] >>),
                                                       rcall.default)])
            /\ ~rcall.vol.raised =>
                  InOrder(rcall.vol, specs,
                          [i \in 1..Len(specs) |->
                              resolve_metric_specs(Given(<< specs[i] >>))])

\* two specs of different kinds, resolved by both resolvers
C8_Witness ==
    /\ rcall.done
    /\ rcall.metrics = Given(<< FuncSpec("partial_range"), StrSpec("max") >>)
    /\ rcall.roi.names = << "custom_metric", "max" >>
    /\ rcall.roi.funcs = << "partial_range", "metrics._nanmax" >>
    /\ rcall.vol.names = << "custom_metric", "max" >>
    /\ rcall.vol.funcs = << "partial_range", "volume.lambda_max" >>

\* the reducers of the catalog, in catalog order
CatalogFuncs == [i \in 1..Len(ROI_METRICS_keys) |-> ROI_METRICS[ROI_METRICS_keys[i]]]

\* C9: with an empty or absent spec list, resolution uses the full built-in
\* catalog (nanmean, nanmedian, nanstd, nanmin, nanmax, count, zfmean, iqrmean,
\* mad_median) in catalog order, so the table has one column per catalog
\* reducer; in resolve_roi_metric_specs and inside parcellate_volume.
C9_EmptyUsesCatalog ==
    /\ (rcall.done /\ Falsy(rcall.metrics) /\ ~rcall.default.given) =>
          /\ rcall.roi = Returned(ROI_METRICS_keys, CatalogFuncs)
          /\ rcall.vol.names = ROI_METRICS_keys
          /\ Len(rcall.vol.funcs) = Len(ROI_METRICS_keys)
    /\ (pc = "returned" /\ Falsy(args.metrics)) =>
          df.columns = << "index", "label" >>
                           \o (IF args.lut.given THEN << "name" >> ELSE << >>)
                           \o ROI_METRICS_keys

\* the part of C9 that the code meets: the registry's resolver alone
C9_RegistryOnly ==
    (rcall.done /\ Falsy(rcall.metrics) /\ ~rcall.default.given) =>
        rcall.roi = Returned(ROI_METRICS_keys, CatalogFuncs)

-----------------------------------------------------------------------------
(* Properties of grid reconciliation.                                       *)

NamedPolicy ==
    \/ ~args.resample_target.given
    \/ args.resample_target.v \in {"labels", "atlas", "data", "scalar"}

\* C10: if the label grid and the value grid have the same shape,
\* _ensure_aligned returns both grids unchanged, resamples nothing, logs
\* nothing and raises nothing, under the policies labels/atlas, data/scalar
\* and None.
C10_SameShapeUnchanged ==
    (pc \notin {"idle", "called"} /\ SameShape /\ NamedPolicy) =>
        /\ atlas_img = args.atlas_path
        /\ scalar_img = args.scalar_path
        /\ log = << >>
        /\ \A i \in 1..Len(resampled) : resampled[i].image = "mask"
        /\ pc = "raised" => error[1] \notin {"Atlas shape", "Unknown resample_target:"}

C10_Witness ==
    /\ pc = "aligned"
    /\ SameShape
    /\ args.resample_target = Given("data")
    /\ args.atlas_path.shape = << 1, 3 >>
    /\ atlas_img = args.atlas_path

C10_WitnessNone ==
    /\ pc = "aligned"
    /\ SameShape
    /\ ~args.resample_target.given
    /\ scalar_img = args.scalar_path

\* the shapes of the two grids handed to the call differ
Mismatch == args.atlas_path.shape # args.scalar_path.shape

\* the call has gone through _ensure_aligned
Reconciled == pc \notin {"idle", "called"}

\* C11: if the label grid and the value grid differ in shape and the policy is
\* None, reconciliation fails with a shape-mismatch error carrying both
\* shapes, nothing is resampled, and parcellate_volume returns no table.
C11_MismatchNoneFails ==
    (Reconciled /\ Mismatch /\ ~args.resample_target.given) =>
        /\ pc = "raised"
        /\ error = << "Atlas shape", args.atlas_path.shape,
                      "does not match scalar shape", args.scalar_path.shape >>
        /\ resampled = << >>
        /\ atlas_img = NoImage /\ scalar_img = NoImage
        /\ df = NoTable

C11_Witness ==
    /\ pc = "raised"
    /\ ~args.resample_target.given
    /\ args.atlas_path.shape = << 1, 2 >>
    /\ args.scalar_path.shape = << 2, 1 >>
    /\ error[2] = << 1, 2 >> /\ error[4] = << 2, 1 >>

\* C12: reconciliation called with a policy token other than labels, atlas,
\* data, scalar or None fails with an unknown-policy error, for every pair of
\* input grids.
C12_UnknownPolicyFails ==
    (Reconciled /\ ~NamedPolicy) =>
        /\ pc = "raised"
        /\ error = << "Unknown resample_target:", args.resample_target.v >>

\* the part of C12 that the code meets: grids of different shapes
C12_MismatchOnly ==
    (Reconciled /\ ~NamedPolicy /\ Mismatch) =>
        /\ pc = "raised"
        /\ error = << "Unknown resample_target:", args.resample_target.v >>
        /\ resampled = << >> /\ log = << >>

\* the error, if any, was not raised by _ensure_aligned
NoAlignError ==
    pc = "raised" => error[1] \notin {"Atlas shape", "Unknown resample_target:"}

\* voxel (r, c) of grid a and of grid b hold the same value wherever both
\* grids have that voxel
AgreeOnOverlap(a, b) ==
    \A r \in 1..a.shape[1], c \in 1..a.shape[2] :
        (r <= b.shape[1] /\ c <= b.shape[2]) =>
            a.data[Flat(a.shape, r, c)] = b.data[Flat(b.shape, r, c)]

\* C13: with mismatched shapes and policy labels or atlas, reconciliation
\* resamples the value grid onto the label grid's geometry with an
\* interpolation order of at least 1 and returns the label grid unchanged:
\* afterwards the value grid has the label grid's shape and no error is raised
\* (value grid 4x4 against label grid 2x2 gives a value grid 2x2).
C13_ValueGridOntoLabels ==
    (Reconciled /\ Mismatch /\ args.resample_target.given
                /\ args.resample_target.v \in {"labels", "atlas"}) =>
        /\ NoAlignError
        /\ atlas_img = args.atlas_path
        /\ scalar_img.shape = args.atlas_path.shape
        /\ Len(scalar_img.data) = Size(args.atlas_path.shape)
        /\ AgreeOnOverlap(scalar_img, args.scalar_path)
        /\ Len(resampled) >= 1
        /\ resampled[1].image = "scalar" /\ resampled[1].order >= 1
        /\ \A i \in 2..Len(resampled) : resampled[i].image = "mask"
        /\ args.scalar_path = TestScalarFives =>
              scalar_img = Image(TestShape, << Num(5), Num(5), Num(5), Num(5) >>)

C13_Witness ==
    /\ pc = "returned"
    /\ args.atlas_path = TestAtlasOnes
    /\ args.scalar_path = TestScalarFives
    /\ args.resample_target = Given("labels")
    /\ scalar_img.shape = << 2, 2 >>
    /\ df.index = << "1" >>
    /\ df.values = << << Num(5) >> >>

OntoValueGrid ==
    args.resample_target.given /\ args.resample_target.v \in {"data", "scalar"}

\* every resampling of the label grid in a list of resamplings is of order 0
AtlasNearestOnly(done) ==
    \A i \in 1..Len(done) : done[i].image = "atlas" => done[i].order = 0

\* C14: the label grid is only ever resampled with nearest-neighbour
\* interpolation (order 0).  With mismatched shapes and policy data or scalar
\* it is resampled with order 0 onto the value grid's geometry and the value
\* grid is returned unchanged; under every other policy it is not resampled;
\* and the runner's pre-resampling of the atlas is nearest-neighbour too.
C14_LabelsNearestOnly ==
    /\ AtlasNearestOnly(resampled)
    /\ AtlasNearestOnly(job.resampled)
    /\ (Reconciled /\ Mismatch /\ OntoValueGrid) =>
          /\ NoAlignError
          /\ scalar_img = args.scalar_path
          /\ atlas_img.shape = args.scalar_path.shape
          /\ Len(atlas_img.data) = Size(args.scalar_path.shape)
          /\ AgreeOnOverlap(atlas_img, args.atlas_path)
          /\ Len(resampled) >= 1
          /\ resampled[1] = [image |-> "atlas", order |-> 0]
    /\ (Reconciled /\ ~OntoValueGrid) =>
          /\ \A i \in 1..Len(resampled) : resampled[i].image # "atlas"
          /\ pc = "raised" \/ atlas_img = args.atlas_path
    /\ (job.given /\ ~(job.v.resample_target.given
                       /\ job.v.resample_target.v \in {"data", "scalar"})) =>
          /\ job.resampled = << >>
          /\ args.atlas_path = job.v.atlas
    /\ (job.given /\ Len(job.resampled) = 1) =>
          /\ args.atlas_path.shape = job.v.scalar.shape
          /\ AgreeOnOverlap(args.atlas_path, job.v.atlas)

C14_Witness ==
    /\ pc = "returned"
    /\ ~job.given
    /\ Mismatch
    /\ args.resample_target = Given("scalar")
    /\ resampled = << [image |-> "atlas", order |-> 0] >>
    /\ atlas_img.shape = << 1, 3 >>
    /\ args.atlas_path.shape = << 1, 2 >>
    /\ scalar_img = args.scalar_path

C14_WitnessRunner ==
    /\ pc = "returned"
    /\ job.given
    /\ job.resampled = << [image |-> "atlas", order |-> 0] >>
    /\ job.v.atlas.shape # job.v.scalar.shape
    /\ resampled = << >>

\* the call resamples the label grid or the value grid
ResamplesGrid ==
    /\ Mismatch
    /\ args.resample_target.given
    /\ args.resample_target.v \in {"labels", "atlas", "data", "scalar"}

\* a warning that names the shapes of both grids of the call
NamesBothShapes(rec) ==
    /\ rec.level = "WARNING"
    /\ rec.message[2] = args.atlas_path.shape
    /\ rec.message[4] = args.scalar_path.shape

\* C15: during one parcellate_volume call the engine writes a log record if
\* and only if it resamples the label grid or the value grid: then exactly one
\* warning naming both shapes, and no record on any other path (equal shapes,
\* errors, mask handling, the resampling of the mask included).
C15_LogsOnlyWhenResampling ==
    /\ ~Reconciled => log = << >>
    /\ (Reconciled /\ ResamplesGrid) =>
          /\ Len(log) = 1
          /\ NamesBothShapes(log[1])
          /\ Len(resampled) >= 1 /\ resampled[1].image \in {"atlas", "scalar"}
    /\ (Reconciled /\ ~ResamplesGrid) =>
          /\ log = << >>
          /\ \A i \in 1..Len(resampled) : resampled[i].image = "mask"

C15_Witness ==
    /\ pc = "returned"
    /\ args.resample_target = Given("atlas")
    /\ args.atlas_path.shape = << 2, 1 >>
    /\ args.scalar_path.shape = << 1, 3 >>
    /\ Len(log) = 1
    /\ log[1].message = << "Atlas shape", << 2, 1 >>, "does not match scalar shape",
                           << 1, 3 >> >>

C15_WitnessMask ==
    /\ pc = "returned"
    /\ SameShape
    /\ resampled = << [image |-> "mask", order |-> 0] >>
    /\ log = << >>

\* the mask argument is a path, an image or a string (a preset name or the
\* path of a file)
MaskTypeSupported == args.mask.v.kind \in {"path", "image", "str"}

\* the call has gone through the mask stage
PastMask == pc \in {"masked", "resolved", "returned"} \/ (pc = "raised" /\ atlas_img # NoImage)

\* C16: a mask value that is neither a path, an image nor a preset name makes
\* mask loading fail with an unsupported-mask-type error carrying the
\* offending type, and parcellate_volume returns no table.
C16_UnsupportedMaskFails ==
    /\ (PastMask /\ args.mask.given /\ ~MaskTypeSupported) =>
          /\ pc = "raised"
          /\ error = << "Unsupported mask type:", args.mask.v.kind >>
          /\ atlas = atlas_img.data
          /\ df = NoTable
    /\ (pc = "raised" /\ error[1] = "Unsupported mask type:") =>
          args.mask.given /\ ~MaskTypeSupported

C16_Witness ==
    /\ pc = "raised"
    /\ args.mask.given
    /\ args.mask.v.kind = "list"
    /\ error = << "Unsupported mask type:", "list" >>
    /\ df = NoTable

\* a preset name in capitals is resolved to the stock mask
C16_WitnessPreset ==
    /\ pc = "returned"
    /\ args.mask.v.kind = "str" /\ args.mask.v.key = "GM"
    /\ args.atlas_path.shape = << 1, 2 >>
    /\ atlas = << 1, 0 >>

-----------------------------------------------------------------------------
(* Properties of label naming and of the table's layout.                    *)

\* the decimal numerals of the labels of the model
DecimalName == << "1", "2", "3", "4", "5", "6", "7", "8", "9" >>

\* the rows of the returned table are named as the LUT says
NamingFollowsLut ==
    /\ Len(df.index) = Len(df.label)
    /\ \A i \in 1..Len(df.label) : df.index[i] = DecimalName[df.label[i]]
    /\ ~args.lut.given =>
          /\ df.name = << >>
          /\ \A k \in 1..Len(df.columns) :
                df.columns[k] = "name" => k > 2 /\ metric_names[k - 2] = "name"
    /\ args.lut.given =>
          /\ df.columns[3] = "name"
          /\ Len(df.name) = Len(df.label)
          /\ \A i \in 1..Len(df.label) :
                df.name[i] = IF df.label[i] \in DOMAIN args.lut.v
                             THEN args.lut.v[df.label[i]]
                             ELSE DecimalName[df.label[i]]

\* C17: label naming never fails and follows the LUT: the index of every row
\* is the stringified integer label; without a LUT there is no name column;
\* with a LUT every row is named by the LUT entry of its label, and by
\* str(label) when the LUT lacks the label; for every LUT and every label set.
C17_NamingNeverFails ==
    /\ pc = "returned" => NamingFollowsLut
    /\ pc = "raised" => metric_names = << >>

\* the part of C17 that the code meets: whenever a table is returned, it is
\* named as the LUT says
C17_ReturnedTablesNamed == pc = "returned" => NamingFollowsLut

\* a value of a numeric column: a number or not-a-number
Numeric(x) == x.k \in {"num", "sqrt", "nan"}

\* C18: the returned table has the columns index, then label, then name if
\* and only if a LUT was supplied, then exactly one numeric column per
\* resolved metric, named as the metric was requested (an alias such as
\* iqr_mean keeps its spelling), in the order the metrics were requested.
C18_ColumnLayout ==
    pc = "returned" =>
        /\ df.columns = << "index", "label" >>
                            \o (IF args.lut.given THEN << "name" >> ELSE << >>)
                            \o metric_names
        /\ Len(metric_names) = Len(metric_funcs)
        /\ ~Falsy(args.metrics) =>
              /\ Len(metric_names) = Len(args.metrics.v)
              /\ \A j \in 1..Len(metric_names) :
                    metric_names[j] = AskedName(args.metrics.v[j])
        /\ \A i \in 1..Len(df.values) :
              /\ Len(df.values[i]) = Len(metric_names)
              /\ \A j \in 1..Len(metric_names) : Numeric(df.values[i][j])
        /\ Len(df.values) = Len(df.index)

\* test_volume_parcellator_runs_with_placeholder_strategy
C18_Witness ==
    /\ pc = "returned"
    /\ args.atlas_path = TestAtlasThree
    /\ df.columns = << "index", "label", "mean", "median", "iqr_mean" >>
    /\ df.values[1][1] = Num(2)
    /\ df.values[2][2] = Num(5)

C18_WitnessLut ==
    /\ pc = "returned"
    /\ args.lut.given
    /\ df.columns = << "index", "label", "name", "max", "mean" >>

-----------------------------------------------------------------------------
(* Properties of the built-in reducers.                                     *)

CountReducers == {ROI_METRICS["count"], BUILTIN_METRICS["count"]}

\* no built-in reducer raises, whatever the array
NeverRaises == \A f \in Reducers : red.out[f] # Raises

\* C19 (as amended): every built-in reducer is total: it never raises, and on
\* an empty value sequence it returns not-a-number, except count, which
\* returns 0.0.
C19_ReducersTotal ==
    red.done =>
        /\ NeverRaises
        /\ red.arr = << >> =>
              /\ \A f \in Reducers \ CountReducers : red.out[f] = NaN
              /\ \A f \in CountReducers : red.out[f] = Num(0)

\* C19 as stated: on an empty value sequence every built-in reducer returns
\* not-a-number and never raises
C19_AsStated ==
    red.done =>
        /\ NeverRaises
        /\ red.arr = << >> => \A f \in Reducers : red.out[f] = NaN

C19_Witness ==
    /\ red.done
    /\ red.arr = << >>
    /\ red.out["metrics._nanmin"] = NaN
    /\ red.out["metrics._iqr_mean"] = NaN
    /\ red.out["metrics._count"] = Num(0)

\* the reducer of the catalog gives on arr what it gives on arr without its
\* missing entries
ByExclusion(name) ==
    red.out[ROI_METRICS[name]] = Apply(ROI_METRICS[name], Valid(red.arr))

\* C20: every built-in reducer except count tolerates missing entries by
\* exclusion: on an input with at least one valid value nanmean, nanmedian,
\* nanstd, nanmin, nanmax, zfmean, iqrmean and mad_median return what they
\* return on the input without its missing entries; count returns the number
\* of elements, missing ones included.
C20_MissingExcluded ==
    (red.done /\ Len(Valid(red.arr)) >= 1) =>
        /\ \A name \in DOMAIN ROI_METRICS \ {"count"} : ByExclusion(name)
        /\ red.out[ROI_METRICS["count"]] = Num(Len(red.arr))

\* the part of C20 that the code meets: every reducer but iqrmean
C20_AllButIqrMean ==
    (red.done /\ Len(Valid(red.arr)) >= 1) =>
        /\ \A name \in DOMAIN ROI_METRICS \ {"count", "iqrmean"} : ByExclusion(name)
        /\ red.out[ROI_METRICS["count"]] = Num(Len(red.arr))

\* the outlier is discarded, with or without a missing entry beside it
C20_WitnessZfmean ==
    /\ red.done
    /\ red.arr = Append(OutlierArray, NaN)
    /\ red.out[ROI_METRICS["zfmean"]] = Num(1)
    /\ red.out[ROI_METRICS["nanmean"]] = Rat(13, 11)
    /\ red.out[ROI_METRICS["count"]] = Num(12)

-----------------------------------------------------------------------------
(* Properties of the z-filtered mean.                                       *)

ZFilteredMeans == {ROI_METRICS["zfmean"], BUILTIN_METRICS["zfiltered_mean"]}

\* the z-score magnitude of x within arr is at least ZThreshold: the squared
\* deviation from the mean of the valid values is at least ZThreshold squared
\* times their population variance
ZScoreAtLeastThreshold(x, arr) ==
    LET dev == RSub(x, np_nanmean(arr))
    IN  RLeq(RMul(Num(ZThreshold * ZThreshold), Variance(arr)), RMul(dev, dev))

\* the valid values of arr that are left once those at or beyond the threshold
\* are discarded
WithinThreshold(arr) ==
    LET v == Valid(arr)
    IN  Take(v, [i \in 1..Len(v) |-> ~ZScoreAtLeastThreshold(v[i], arr)])

\* C21: zfmean returns the mean of the input after discarding exactly the
\* values whose z-score magnitude (mean and population standard deviation over
\* the valid values) is 3 or more; with a standard deviation of 0 it returns
\* the unfiltered mean; on an empty input it returns not-a-number.
C21_ZFilteredMean ==
    red.done =>
        \A f \in ZFilteredMeans :
            IF Len(Valid(red.arr)) = 0 THEN red.out[f] = NaN
            ELSE IF Variance(red.arr) = Num(0)
            THEN red.out[f] = RDivInt(RSum(Valid(red.arr)), Len(Valid(red.arr)))
            ELSE red.out[f] = RDivInt(RSum(WithinThreshold(red.arr)),
                                      Len(WithinThreshold(red.arr)))

\* a value exactly three standard deviations out is discarded
C21_Witness ==
    /\ red.done
    /\ red.arr = ThresholdArray
    /\ Variance(red.arr) = Rat(9, 25)
    /\ Len(WithinThreshold(red.arr)) = 9
    /\ \A f \in ZFilteredMeans : red.out[f] = Num(1)

\* the standard deviation is 0 and the mean is returned unfiltered
C21_WitnessFlat ==
    /\ red.done
    /\ Len(Valid(red.arr)) >= 2
    /\ Variance(red.arr) = Num(0)
    /\ \A f \in ZFilteredMeans : red.out[f] = red.arr[1]

\* the input is empty
C21_WitnessEmpty ==
    /\ red.done
    /\ red.arr = << >>
    /\ \A f \in ZFilteredMeans : red.out[f] = NaN

-----------------------------------------------------------------------------
(* Properties of the numeric edge cases.                                    *)

\* the values of the voxels that carry label once the grids are reconciled
\* and the mask is applied
VoxelsOf(label) == Take(scalars, [i \in 1..Len(atlas) |-> atlas[i] = label])

\* the positive labels present once the mask is applied
LabelsPresent == {atlas[i] : i \in {k \in 1..Len(atlas) : atlas[k] > 0}}

\* some region's values are all missing, or have a standard deviation of zero
EdgeRegion(label) ==
    \/ Len(Valid(VoxelsOf(label))) = 0
    \/ Variance(VoxelsOf(label)) = Num(0)

\* the call has come to the reduction with columns that can be laid out
\* beside index, label and name
InReduction ==
    /\ pc = "returned" \/ (pc = "raised" /\ metric_names # << >>)
    /\ \A j \in 1..Len(metric_names) : metric_names[j] \notin {"index", "label", "name"}

BuiltinColumns ==
    {j \in 1..Len(metric_names) :
        /\ metric_names[j] \in DOMAIN BUILTIN_METRICS
        /\ metric_funcs[j] = BUILTIN_METRICS[metric_names[j]]}

\* C22: numeric edge cases never abort a parcellate_volume call: when some
\* region's values are all missing, or have zero standard deviation, the call
\* still returns a complete table, with a row for every positive label present
\* and a value (possibly not-a-number) in every built-in metric column of
\* every row.
C22_EdgeCasesReturn ==
    (InReduction /\ \E label \in LabelsPresent : EdgeRegion(label)) =>
        /\ pc = "returned"
        /\ Range(df.label) = LabelsPresent
        /\ Len(df.label) = Cardinality(LabelsPresent)
        /\ Len(df.values) = Len(df.label)
        /\ \A i \in 1..Len(df.values) :
              /\ Len(df.values[i]) = Len(metric_names)
              /\ \A j \in BuiltinColumns : df.values[i][j].k \in {"num", "sqrt", "nan"}

\* a region of missing values only beside a region of one value, under all
\* nine built-in metrics: the first row is not-a-number but for its count
C22_Witness ==
    /\ pc = "returned"
    /\ args.metrics = DefaultMetricsArg
    /\ Cardinality(BuiltinColumns) = 9
    /\ Len(df.label) = 2
    /\ Len(Valid(VoxelsOf(df.label[1]))) = 0
    /\ Len(VoxelsOf(df.label[1])) >= 1
    /\ \A j \in BuiltinColumns :
          df.values[1][j] = IF metric_names[j] = "count"
                            THEN Num(Len(VoxelsOf(df.label[1]))) ELSE NaN
    /\ Len(Valid(VoxelsOf(df.label[2]))) >= 1
    /\ Variance(VoxelsOf(df.label[2])) = Num(0)
    /\ df.values[2][3] = Sqrt(Num(0))

-----------------------------------------------------------------------------
(* Properties of the caller's grids.                                        *)

\* C23: parcellate_volume never mutates the caller-owned label grid, value
\* grid or mask: at every step of a call, successful or failing, with or
\* without masking and resampling, the caller's grids keep their data and
\* shape; masking and reconciliation work on new derived grids.
C23_CallerGridsKept ==
    [][(pc # "idle" /\ pc' # "idle") =>
          /\ args'.atlas_path = args.atlas_path
          /\ args'.scalar_path = args.scalar_path
          /\ args'.mask = args.mask]_vars

\* a call that masked the caller's own label buffer has returned: the derived
\* label array has zeros where the caller's grid still has its labels
C23_Witness ==
    /\ pc = "returned"
    /\ args.mask.given
    /\ OwnBuffer
    /\ atlas # args.atlas_path.data
    /\ \E i \in 1..Len(atlas) : atlas[i] = 0 /\ args.atlas_path.data[i] > 0

\* a call that resampled the value grid has returned: the derived grid has the
\* label grid's shape, the caller's value grid its own
C23_WitnessResampled ==
    /\ pc = "returned"
    /\ resampled # << >>
    /\ scalar_img.shape # args.scalar_path.shape
    /\ scalar_img.shape = args.atlas_path.shape

-----------------------------------------------------------------------------
(* Properties of repeated invocations.                                      *)

\* what the invocation under way hands back
ThisOutcome == Outcome(pc = "raised", error, df)

\* C24: parcellate_volume is deterministic and stateless: for fixed inputs,
\* any number of repeated invocations, in any order relative to invocations
\* on other inputs, return identical tables (or fail alike); no invocation's
\* result depends on an earlier invocation.
C24_RepeatedCallsAgree ==
    (session.cur # 0 /\ pc \in {"returned", "raised"}
        /\ session.seen[session.cur].done) =>
        ThisOutcome = session.seen[session.cur].out

\* the plain selection is invoked again after every other selection, the
\* masked and the failing one among them, and returns its first table
C24_Witness ==
    /\ pc = "returned"
    /\ session.cur = 1
    /\ \A k \in 1..Len(RepeatInputs) : session.seen[k].done
    /\ session.seen[4].out.raised
    /\ session.seen[2].out.df.values # session.seen[1].out.df.values
    /\ df.values = << << Num(2) >>, << Num(6) >> >>
    /\ df = session.seen[1].out.df

-----------------------------------------------------------------------------
(* Properties of reducers supplied by the caller.                           *)

\* the callables that carry an identifier of their own
Introspectable == {"range_metric"} \cup Reducers

\* the metrics of the call under way, as the caller gave them
Asked == IF Falsy(args.metrics) THEN << >> ELSE args.metrics.v

\* the column of the j-th metric: after index, label and, with a LUT, name
ColumnOf(j) == (IF args.lut.given THEN 3 ELSE 2) + j

\* C25: a metric given as a bare reducer function resolves to that function
\* under its introspectable identifier (__name__), or under the fixed fallback
\* "custom_metric" when it has none; a metric given as a (name, reducer) pair
\* resolves to that reducer under exactly that name; and the table column of
\* that name carries the reducer's results.
C25_CustomReducers ==
    pc \in {"resolved", "returned"} =>
        \A j \in 1..Len(Asked) :
            Asked[j].t \in {"func", "pair"} =>
                /\ metric_funcs[j] = Asked[j].f
                /\ metric_names[j] =
                      IF Asked[j].t = "pair" THEN Asked[j].s
                      ELSE IF Asked[j].f \in Introspectable THEN Asked[j].f
                      ELSE "custom_metric"
                /\ pc = "returned" =>
                      /\ df.columns[ColumnOf(j)] = metric_names[j]
                      /\ \A i \in 1..Len(df.label) :
                            df.values[i][j] = Apply(Asked[j].f, VoxelsOf(df.label[i]))

\* test_parcellate_volume_custom_metric: range = max - min on labels
\* [[1, 1], [2, 2]] and values [[1, 3], [5, 7]] is 2.0 for both regions
C25_Witness ==
    /\ pc = "returned"
    /\ args.atlas_path = TestAtlasRows
    /\ args.scalar_path = TestScalarRows
    /\ args.metrics = Given(<< PairSpec("range", "range_metric") >>)
    /\ ~args.mask.given
    /\ df.columns = << "index", "label", "range" >>
    /\ df.index = << "1", "2" >>
    /\ df.values = << << Num(2) >>, << Num(2) >> >>

\* a bare function with an identifier beside a pair whose reducer has none
C25_WitnessBare ==
    /\ pc = "returned"
    /\ Asked = << FuncSpec("range_metric"), PairSpec("mean", "partial_range") >>
    /\ df.columns = << "index", "label", "range_metric", "mean" >>
    /\ df.values = << << Num(2), Num(2) >>, << Num(2), Num(2) >> >>

\* a bare callable without an identifier
C25_WitnessFallback ==
    /\ pc = "returned"
    /\ Len(Asked) >= 1
    /\ Asked[1] = FuncSpec("partial_range")
    /\ df.columns[3] = "custom_metric"

-----------------------------------------------------------------------------
(* Properties of the planner.                                               *)

\* the (recon input, atlas, scalar map) triples of the call, atlas and scalar
\* map taken from the same recon input
Candidates ==
    {<< r, a, s >> \in (1..Len(plan.recon_inputs)) \X (1..2) \X (1..2) :
        /\ a <= Len(plan.recon_inputs[r].atlases)
        /\ s <= Len(plan.recon_inputs[r].scalar_maps)}

\* the two share a permitted space: equal ignoring case, and in the allowed
\* set when there is one
SharePermittedSpace(atlas_space, scalar_space) ==
    /\ Lower(atlas_space) = Lower(scalar_space)
    /\ allowed_spaces(plan.spaces).given =>
          Lower(atlas_space) \in allowed_spaces(plan.spaces).v

Planned(r, a, s) ==
    \E k \in 1..Len(plan.out.jobs) :
        /\ plan.out.jobs[k].context = plan.recon_inputs[r].context
        /\ plan.out.jobs[k].atlas = plan.recon_inputs[r].atlases[a]
        /\ plan.out.jobs[k].scalar = plan.recon_inputs[r].scalar_maps[s]

\* C26: plan_parcellations emits a job only for an atlas and a scalar map of
\* the same recon input that share a permitted space: whenever both declare a
\* space, a job is planned if and only if the two spaces are equal ignoring
\* case and (when an allowed-space set is given) that space is in the set, so
\* every planned job with both spaces declared has job.atlas.space equal to
\* job.scalar.space case-insensitively.
C26_PlansBySpace ==
    plan.done =>
        /\ \A c \in Candidates :
              LET at == plan.recon_inputs[c[1]].atlases[c[2]]
                  sc == plan.recon_inputs[c[1]].scalar_maps[c[3]]
              IN  (Truthy(at.space) /\ Truthy(sc.space)) =>
                      (Planned(c[1], c[2], c[3]) <=> SharePermittedSpace(at.space, sc.space))
        /\ \A k \in 1..Len(plan.out.jobs) :
              /\ \E c \in Candidates : Planned(c[1], c[2], c[3])
              /\ (Truthy(plan.out.jobs[k].atlas.space)
                    /\ Truthy(plan.out.jobs[k].scalar.space)) =>
                    Lower(plan.out.jobs[k].atlas.space)
                        = Lower(plan.out.jobs[k].scalar.space)

\* the filter alone, on the pairs of the call: with both spaces declared,
\* _spaces_compatible is true exactly of the pairs that share a permitted space
C26_FilterAlone ==
    plan.done =>
        \A c \in Candidates :
            LET at == plan.recon_inputs[c[1]].atlases[c[2]]
                sc == plan.recon_inputs[c[1]].scalar_maps[c[3]]
            IN  (Truthy(at.space) /\ Truthy(sc.space)) =>
                    (spaces_compatible(at.space, sc.space, allowed_spaces(plan.spaces))
                        <=> SharePermittedSpace(at.space, sc.space))


-----------------------------------------------------------------------------
(* C27: the runner's cache of resampled atlases.                           *)

\* the job asks for the atlas on the scalar map's grid
OntoData(job_) ==
    job_.resample_target.given /\ job_.resample_target.v \in {"scalar", "data"}

\* an earlier job of the run asked for the same atlas on the same scalar map
EarlierSame(k) ==
    \E i \in 1..(k - 1) :
        OntoData(run.jobs[i]) /\ CacheKey(run.jobs[i]) = CacheKey(run.jobs[k])

C27_WitnessOtherTarget ==
    /\ run.on
    /\ pc = "called"
    /\ job.given
    /\ run.k = 2
    /\ ~OntoData(run.jobs[2])
    /\ OntoData(run.jobs[1])
    /\ CacheKey(run.jobs[1]) = CacheKey(run.jobs[2])
    /\ DOMAIN cache = {CacheKey(run.jobs[1])}
    /\ args.atlas_path = run.jobs[2].atlas


-----------------------------------------------------------------------------
(* C30: the results of run_parcellation and the files it writes.           *)

\* what parcellate_volume makes of the i-th job of the run, called as line 31
\* calls it
JobOutcome(i) ==
    LET j == run.jobs[i]
    IN  parcellate_volume(
            CallArgs(IF OntoData(j) THEN resample_to_img(j.atlas, j.scalar, "nearest")
                     ELSE j.atlas,
                     j.scalar, j.metrics, j.lut, j.resample_target, j.mask))

\* the jobs of the run that are over
JobsDone == IF job.given THEN run.k - 1 ELSE run.k

\* the last of the first n jobs that writes to the file of job i
LastWriter(i, n) ==
    CHOOSE w \in i..n :
        /\ OutputPath(run.jobs[w]) = OutputPath(run.jobs[i])
        /\ \A x \in (w + 1)..n : OutputPath(run.jobs[x]) # OutputPath(run.jobs[i])

\* C30: run_parcellation runs the jobs in input order (a dict's groups in dict
\* order, each group's jobs in group order); while no job has failed there is
\* exactly one result per finished job, the k-th carrying the k-th job and
\* the table parcellate_volume computes for it, so the list returned has one
\* result per input job; with an output root every finished job's table is in
\* its file before the next job starts (a later job with the same file name
\* writing over it), and when a job fails there is no result list while the
\* files of the jobs before it stay on disk.
C30_ResultsInOrder ==
    run.on =>
        /\ run.input.t = "list" => run.jobs = run.input.v
        /\ run.input.t = "dict" =>
              /\ Len(run.input.v) = 2
              /\ run.jobs = run.input.v[1].jobs \o run.input.v[2].jobs
        /\ ~run.raised =>
              /\ Len(run.results) = JobsDone
              /\ \A i \in 1..Len(run.results) :
                    /\ run.results[i].job = run.jobs[i]
                    /\ ~JobOutcome(i).raised
                    /\ run.results[i].table = JobOutcome(i).df
                    /\ run.results[i].output_path =
                          IF run.output_root THEN << OutputPath(run.jobs[i]) >>
                          ELSE << >>
        /\ run.raised =>
              /\ run.results = << >>
              /\ JobOutcome(run.k).raised
        /\ LET written == IF run.raised THEN run.k - 1 ELSE JobsDone
           IN  IF run.output_root
               THEN /\ DOMAIN run.disk = {OutputPath(run.jobs[i]) : i \in 1..written}
                    /\ \A i \in 1..written :
                          run.disk[OutputPath(run.jobs[i])] =
                              JobOutcome(LastWriter(i, written)).df
               ELSE run.disk = << >>

\* a run of two different jobs with an output root is about to return its two
\* results, both tables on disk
C30_Witness ==
    /\ run.on
    /\ pc = "idle"
    /\ ~run.raised
    /\ run.output_root
    /\ run.k = 2
    /\ Len(run.jobs) = 2
    /\ Len(run.results) = 2
    /\ run.results[1].job # run.results[2].job
    /\ run.results[1].table # run.results[2].table
    /\ Cardinality(DOMAIN run.disk) = 2

\* the second job of a run failed: no results, the first job's file on disk
C30_WitnessFailure ==
    /\ run.on
    /\ run.raised
    /\ run.output_root
    /\ run.k = 2
    /\ run.results = << >>
    /\ DOMAIN run.disk = {OutputPath(run.jobs[1])}

\* a dict of two groups has been run to its end, three results in dict order
C30_WitnessDict ==
    /\ run.on
    /\ pc = "idle"
    /\ run.input.t = "dict"
    /\ ~run.raised
    /\ Len(run.results) = 3
    /\ run.results[3].job = run.input.v[2].jobs[1]

\* two jobs with the same atlas and scalar map wrote the same file, which
\* holds the table of the second
C30_WitnessOverwrite ==
    /\ run.on
    /\ pc = "idle"
    /\ ~run.raised
    /\ Len(run.results) = 2
    /\ Cardinality(DOMAIN run.disk) = 1
    /\ run.results[1].table # run.results[2].table


-----------------------------------------------------------------------------
(* C28: the atlas registry.                                                *)

\* the names registered so far
RegisteredNames ==
    {registry.registered[i].definition.name : i \in DOMAIN registry.registered}

\* the resource most recently registered under the name, << >> when none was
LastRegistered(name) ==
    LET hits == {i \in DOMAIN registry.registered :
                    registry.registered[i].definition.name = name}
    IN  IF hits = {} THEN << >>
        ELSE << registry.registered[CHOOSE i \in hits : \A h \in hits : h <= i] >>

\* C28: after any sequence of register calls and preloads, get(name) is the
\* resource most recently registered under the name and None for a name never
\* registered; list() has exactly one resource per registered name, the one
\* get returns; and every name of the selections last preloaded is listed.
C28_RegisterAddsOrReplaces ==
    LET listed == list(registry.atlases)
    IN  /\ \A name \in AtlasNames \cup {"schaefer"} :
              get(registry.atlases, name) = LastRegistered(name)
        /\ Len(listed) = Cardinality(RegisteredNames)
        /\ {listed[i].definition.name : i \in DOMAIN listed} = RegisteredNames
        /\ \A i \in DOMAIN listed :
              << listed[i] >> = LastRegistered(listed[i].definition.name)
        /\ \A i \in DOMAIN registry.preloaded :
              registry.preloaded[i] \in {listed[n].definition.name : n \in DOMAIN listed}

\* a name has been registered twice with different resources, another name
\* once: get gives the later resource and list has two entries
C28_Witness ==
    /\ Len(registry.registered) = 3
    /\ registry.registered[1].definition.name = registry.registered[3].definition.name
    /\ registry.registered[1] # registry.registered[3]
    /\ registry.registered[2].definition.name # registry.registered[1].definition.name
    /\ get(registry.atlases, registry.registered[1].definition.name)
          = << registry.registered[3] >>
    /\ get(registry.atlases, "schaefer") = << >>
    /\ Len(list(registry.atlases)) = 2

\* two selections have been preloaded, one of them without a path of its own
C28_WitnessPreload ==
    /\ Len(registry.preloaded) = 2
    /\ registry.preloaded[1] # registry.preloaded[2]
    /\ \E i \in DOMAIN registry.atlases :
          registry.atlases[i].definition.nifti_path[1] = "atlas_root"
    /\ Len(list(registry.atlases)) = 2


-----------------------------------------------------------------------------
(* C29: the order in which parcellate_volume checks its inputs.            *)

\* the grids differ and the policy does not say which to resample
ShapeFault ==
    /\ args.atlas_path.shape # args.scalar_path.shape
    /\ \/ ~args.resample_target.given
       \/ args.resample_target.v \notin {"atlas", "labels", "scalar", "data"}

\* the mask cannot be loaded: a type that is not supported, or a missing file
MaskFault ==
    /\ args.mask.given
    /\ \/ args.mask.v.kind \notin {"image", "path", "str"}
       \/ /\ args.mask.v.kind = "str"
          /\ Lower(args.mask.v.key) \notin {"gm", "wm", "csf"}
          /\ args.mask.v.img = NoFile

\* a metric is asked for by a name that is not registered
MetricFault ==
    /\ args.metrics.given
    /\ \E i \in DOMAIN args.metrics.v :
          /\ args.metrics.v[i].t = "str"
          /\ \A n \in DOMAIN BUILTIN_METRICS_keys :
                args.metrics.v[i].s # BUILTIN_METRICS_keys[n]

\* the stage an error message comes from
ErrorStage ==
    CASE error[1] \in {"Atlas shape", "Unknown resample_target:"} -> "reconcile"
      [] error[1] \in {"Unsupported mask type:", "No such file or no access:"} -> "mask"
      [] error[1] = "Unknown metric:" -> "resolve"
      [] OTHER -> "reduce"

\* the error of a failed call is that of the first stage with a fault
EarliestFaultRaised ==
    pc = "raised" =>
        /\ ShapeFault =>
              /\ ErrorStage = "reconcile"
              /\ error[1] = IF args.resample_target.given
                            THEN "Unknown resample_target:" ELSE "Atlas shape"
        /\ (~ShapeFault /\ MaskFault) => ErrorStage = "mask"
        /\ (~ShapeFault /\ ~MaskFault /\ MetricFault) => ErrorStage = "resolve"
        /\ ErrorStage = "resolve" =>
              /\ ~ShapeFault /\ ~MaskFault
              /\ atlas_img # NoImage
              /\ args.mask.given => atlas = apply_mask(atlas_img, atlas_img.data,
                                                       load_mask(args.mask.v).img)

\* C29: parcellate_volume reconciles the grids, then loads and applies the
\* mask, then resolves the metrics; a failed call carries the error of the
\* first of these stages that has a fault, so that mismatched shapes under
\* policy None or an unknown policy fail with the shape/policy error whatever
\* the mask and the metric names are, and an unknown metric name is reported
\* only by the step that follows masking, after reconciliation and masking
\* are done.
C29_ChecksInOrder ==
    /\ [](EarliestFaultRaised)
    /\ [][(pc' = "raised" /\ pc # "raised" /\ error'[1] = "Unknown metric:")
             => (pc = "masked" /\ atlas_img # NoImage)]_vars

\* mismatched shapes, no policy, a mask of an unsupported type and an unknown
\* metric name: the shape error is raised
C29_Witness ==
    /\ pc = "raised"
    /\ ShapeFault /\ MaskFault /\ MetricFault
    /\ ~args.resample_target.given
    /\ error[1] = "Atlas shape"

\* the same under an unknown policy
C29_WitnessUnknownPolicy ==
    /\ pc = "raised"
    /\ ShapeFault /\ MetricFault
    /\ args.resample_target.given
    /\ error[1] = "Unknown resample_target:"

\* an unsupported mask and an unknown metric name: the mask error is raised
C29_WitnessMask ==
    /\ pc = "raised"
    /\ ~ShapeFault /\ MaskFault /\ MetricFault
    /\ error[1] = "Unsupported mask type:"

\* the unknown metric name is reported after the grids were reconciled by
\* resampling and the mask was applied
C29_WitnessMetricLast ==
    /\ pc = "raised"
    /\ MetricFault
    /\ error[1] = "Unknown metric:"
    /\ args.atlas_path.shape # args.scalar_path.shape
    /\ args.mask.given
    /\ resampled # << >>

=============================================================================
